---- MODULE Spec2Model ----
(***************************************************************************)
(* Memory / session-state subsystem of the Plotly agent:                   *)
(*   plotly_agent/memory/memory_manager.py        (state, notes, history)  *)
(*   plotly_agent/memory/context_trimmer.py       (conversation trimming)  *)
(*   plotly_agent/memory/memory_consolidation.py  (dedup, consolidation)   *)
(*   plotly_agent/memory/memory_injection.py      (rendering, reinjection) *)
(*                                                                         *)
(* Python str values are TLA+ strings; the Sequences operators Len, Head,  *)
(* Tail, SubSeq and \o act on them character by character.                 *)
(***************************************************************************)
EXTENDS Integers, Sequences, FiniteSets, TLC

\* ------------------------------------------------------------------------
\* Bounds of the model
\* ------------------------------------------------------------------------
MaxLen == 3          \* longest transcript drawn as an input of a trim
MaxTurnsArg == 2     \* largest max_turns drawn as an input of a trim
MaxNotes == 2        \* most notes held in session + global memory together
MaxAppends == 52     \* most add_visualization_to_history calls in a run
MaxConsolidate == 3  \* most notes given to one consolidation (global + session)

\* ------------------------------------------------------------------------
\* Program constants
\* ------------------------------------------------------------------------
HISTORY_CAP == 50        \* memory_manager.py: "Keep only last 50 visualizations"
KEYWORD_CAP == 5         \* memory_manager.py: [...][:5]
MERGE_KEYWORD_CAP == 5   \* memory_consolidation.py: [...][:5]
SNIPPET_LEN == 100       \* context_trimmer.py: msg.get('content', '')[:100]
MAX_POINTS == 5          \* context_trimmer.py: [...][:5]
CODE_PREVIEW_LEN == 200  \* memory_manager.py: code_snippet[:200]
THRESHOLD_TENTHS == 6    \* memory_consolidation.py: threshold = 0.6
MIN_SCORE_TENTHS == 5    \* memory_consolidation.py: min_score = 0.5
TEXT_MIN_LEN == 10       \* memory_consolidation.py: text_len < 10
TEXT_MAX_LEN == 500      \* memory_consolidation.py: text_len > 500
MAX_AGE_DAYS == 365      \* memory_consolidation.py: max_age = 365
MAX_COUNT == 50          \* memory_consolidation.py: max_count = 50

\* ------------------------------------------------------------------------
\* Python str operations
\* ------------------------------------------------------------------------
UpperAlpha == "ABCDEFGHIJKLMNOPQRSTUVWXYZ"
LowerAlpha == "abcdefghijklmnopqrstuvwxyz"

Char(s, i) == SubSeq(s, i, i)

\* s[:n]
Prefix(s, n) == SubSeq(s, 1, IF n < Len(s) THEN n ELSE Len(s))

\* The lower-case letter of each upper-case letter
LowerOf ==
  [c \in { Char(UpperAlpha, i) : i \in 1..Len(UpperAlpha) } |->
     Char(LowerAlpha, CHOOSE i \in 1..Len(UpperAlpha) : Char(UpperAlpha, i) = c)]

LowerChar(c) == IF c \in DOMAIN LowerOf THEN LowerOf[c] ELSE c

\* str.lower(), halving s so that the recursion stays shallow
RECURSIVE Lower(_)
Lower(s) ==
  IF Len(s) <= 1 THEN LowerChar(s)
  ELSE Lower(SubSeq(s, 1, Len(s) \div 2)) \o Lower(SubSeq(s, Len(s) \div 2 + 1, Len(s)))

IsSpace(c) == c \in {" ", "\t", "\n", "\r"}

RECURSIVE LStrip(_)
LStrip(s) == IF s # "" /\ IsSpace(Head(s)) THEN LStrip(Tail(s)) ELSE s

RECURSIVE RStrip(_)
RStrip(s) ==
  IF s # "" /\ IsSpace(Char(s, Len(s))) THEN RStrip(SubSeq(s, 1, Len(s) - 1)) ELSE s

\* str.strip()
Strip(s) == RStrip(LStrip(s))

\* sub in s
Contains(s, sub) ==
  \E i \in 1..(Len(s) - Len(sub) + 1) : SubSeq(s, i, i + Len(sub) - 1) = sub

\* set(s.split()): the maximal runs of non-whitespace characters of s
Words(s) ==
  LET spaces == { k \in 1..Len(s) : IsSpace(Char(s, k)) } \cup {0, Len(s) + 1}
      starts == { i \in 1..Len(s) : i \notin spaces /\ (i - 1) \in spaces }
      \* the first whitespace position after i
      stop(i) == CHOOSE k \in spaces : k > i /\ \A m \in spaces : m > i => k <= m
  IN { SubSeq(s, i, stop(i) - 1) : i \in starts }

\* Code-point order of the characters of an ISO date
DateChars == "-0123456789"
Ord(c) == CHOOSE i \in 1..Len(DateChars) : Char(DateChars, i) = c

\* a < b on str (lexicographic by code point)
RECURSIVE StrLess(_, _)
StrLess(a, b) ==
  IF b = "" THEN FALSE
  ELSE IF a = "" THEN TRUE
  ELSE IF Head(a) = Head(b) THEN StrLess(Tail(a), Tail(b))
  ELSE Ord(Head(a)) < Ord(Head(b))

\* ------------------------------------------------------------------------
\* Sequence helpers (Python list operations)
\* ------------------------------------------------------------------------
Range(f) == { f[i] : i \in DOMAIN f }

\* lst[:n]
Take(lst, n) == SubSeq(lst, 1, IF n < Len(lst) THEN n ELSE Len(lst))

\* lst[-n:] for n >= 1
LastN(lst, n) == SubSeq(lst, IF Len(lst) > n THEN Len(lst) - n + 1 ELSE 1, Len(lst))

\* list(dict.fromkeys(lst)): first occurrences, in order
RECURSIVE DictFromKeys(_)
DictFromKeys(lst) ==
  IF lst = <<>> THEN <<>>
  ELSE LET init == DictFromKeys(SubSeq(lst, 1, Len(lst) - 1))
           x == lst[Len(lst)]
       IN IF x \in Range(init) THEN init ELSE Append(init, x)

\* all sequences over S of length at most n
RECURSIVE SeqsUpTo(_, _)
SeqsUpTo(S, n) ==
  IF n = 0 THEN {<<>>}
  ELSE LET shorter == SeqsUpTo(S, n - 1)
       IN shorter \cup { Append(q, x) : q \in { r \in shorter : Len(r) = n - 1 }, x \in S }

\* ------------------------------------------------------------------------
\* State
\* ------------------------------------------------------------------------
VARIABLES
  user_id,                            \* PlotlyAgentState.user_id
  profile,                            \* PlotlyAgentState.profile
  global_memory,                      \* PlotlyAgentState.global_memory
  session_memory,                     \* PlotlyAgentState.session_memory
  visualization_history,              \* PlotlyAgentState.visualization_history
  inject_session_memories_next_turn,  \* PlotlyAgentState control flag
  clock,                  \* the wall clock: index of the current UTC day in Days
  conversation_history,   \* the caller's transcript
  max_turns,              \* ConversationManager.max_turns
  op,                     \* name of the operation that ran last
  arg,                    \* its inputs
  ret,                    \* what it returned
  appended,               \* every entry ever given to add_visualization_to_history
  trimmedSinceReinject,   \* a trim discarded content after the last reinjection message
  files,                  \* the states directory: file name -> file content
  second_orchestrator     \* a second WorkflowOrchestratorWithMemory of the process:
                          \* its self.state and self.conversation_history

state_vars == <<user_id, profile, global_memory, session_memory, visualization_history,
                inject_session_memories_next_turn>>
vars == <<user_id, profile, global_memory, session_memory, visualization_history,
          inject_session_memories_next_turn, clock, conversation_history, max_turns,
          op, arg, ret, appended, trimmedSinceReinject, files, second_orchestrator>>

\* No second orchestrator has been created
NoOrchestrator == [created |-> FALSE]

\* The fields of PlotlyAgentState, as one record
State == [user_id |-> user_id,
          profile |-> profile,
          global_memory |-> global_memory,
          session_memory |-> session_memory,
          visualization_history |-> visualization_history,
          inject_session_memories_next_turn |-> inject_session_memories_next_turn]

\* PlotlyAgentState.create_default
DefaultProfile == [preferred_chart_types |-> <<>>,
                   color_scheme |-> "default",
                   audience |-> "general",
                   domain |-> "None",
                   technical_level |-> "intermediate"]

create_default(uid) ==
                  [user_id |-> uid,
                   profile |-> DefaultProfile,
                   global_memory |-> [notes |-> <<>>],
                   session_memory |-> [notes |-> <<>>],
                   visualization_history |-> <<>>,
                   inject_session_memories_next_turn |-> FALSE]

\* The days the clock runs through, as today_iso_utc() formats them
Days == <<"2026-11-04", "2026-11-05">>
today_iso_utc == Days[clock]

\* ------------------------------------------------------------------------
\* memory_manager.py
\* ------------------------------------------------------------------------
MemoryNote(text, date, keywords) ==
  [text |-> text, last_update_date |-> date, keywords |-> keywords]

\* [k.strip().lower() for k in keywords if isinstance(k, str) and k.strip()][:5]
clean_keywords(keywords) ==
  LET kept == SelectSeq(keywords, LAMBDA k : Strip(k) # "")
  IN Take([i \in 1..Len(kept) |-> Lower(Strip(kept[i]))], KEYWORD_CAP)

\* The note add_memory_note creates
new_note(text, keywords) == MemoryNote(Strip(text), today_iso_utc, clean_keywords(keywords))

\* A note added to global memory whatever the scope asked for
add_memory_note_to_global(st, text, keywords, to_session) ==
  [st EXCEPT !.global_memory.notes = Append(@, new_note(text, keywords))]

\* add_memory_note(state, text, keywords, to_session): the state it leaves
add_memory_note(st, text, keywords, to_session) ==
  LET note == new_note(text, keywords)
  IN IF to_session
     THEN [st EXCEPT !.session_memory.notes = Append(@, note)]
     ELSE [st EXCEPT !.global_memory.notes = Append(@, note)]

\* An update that writes the field whether or not the profile has it
update_profile_any_field(st, field, value) ==
  [ok |-> TRUE,
   state |-> [st EXCEPT !.profile =
                [k \in DOMAIN st.profile \cup {field} |->
                   IF k = field THEN value ELSE st.profile[k]]]]

\* update_profile(state, field, value): the boolean it returns and the state it leaves
update_profile(st, field, value) ==
  IF field \in DOMAIN st.profile
  THEN [ok |-> TRUE, state |-> [st EXCEPT !.profile[field] = value]]
  ELSE [ok |-> FALSE, state |-> st]

\* clear_session_memory(state)
clear_session_memory(st) ==
  [st EXCEPT !.session_memory = [notes |-> <<>>],
             !.inject_session_memories_next_turn = FALSE]

\* The entry add_visualization_to_history builds
history_entry(chart_type, story_summary, code_snippet, success) ==
  LET base == [timestamp |-> today_iso_utc \o "T00:00:00+00:00",
               chart_type |-> chart_type,
               story_summary |-> story_summary,
               success |-> success]
  IN IF code_snippet # ""
     THEN [k \in DOMAIN base \cup {"code_preview"} |->
             IF k = "code_preview" THEN Prefix(code_snippet, CODE_PREVIEW_LEN) ELSE base[k]]
     ELSE base

\* A history that, once full, refuses the new entry instead of evicting the oldest
add_visualization_keep_oldest(history, entry) ==
  Take(Append(history, entry), HISTORY_CAP)

\* add_visualization_to_history(state, ...): the history it leaves
add_visualization_to_history(history, entry) ==
  LET longer == Append(history, entry)
  IN IF Len(longer) > HISTORY_CAP THEN LastN(longer, HISTORY_CAP) ELSE longer

\* ------------------------------------------------------------------------
\* context_trimmer.py
\* ------------------------------------------------------------------------
Message(role, content) == [role |-> role, content |-> content]

\* [i for i, m in enumerate(conversation_history) if m.get('role') == 'user'],
\* as positions 1..Len
user_indices(history) ==
  SelectSeq([i \in 1..Len(history) |-> i], LAMBDA i : history[i].role = "user")

UserCount(history) == Len(user_indices(history))

should_trim_conversation(history, mt) == UserCount(history) > mt

\* lst[-(n + 1)]: one element further from the end
IndexFromEndPlusOne(lst, n) == lst[Len(lst) - n]

\* lst[-(n)] for n >= 0: Python reads lst[-0] as lst[0]
IndexFromEnd(lst, n) == IF n = 0 THEN lst[1] ELSE lst[Len(lst) - n + 1]

\* "; ".join(points)
RECURSIVE JoinPoints(_)
JoinPoints(points) ==
  IF points = <<>> THEN ""
  ELSE IF Len(points) = 1 THEN points[1]
  ELSE points[1] \o "; " \o JoinPoints(Tail(points))

chart_types == <<"bar", "line", "scatter", "pie", "histogram">>

\* The context points one message contributes, in the order the loop adds them
message_points(msg) ==
  LET content == Lower(msg.content)
      data == IF (Contains(content, "upload") \/ Contains(content, "data"))
                 /\ msg.role = "user"
              THEN <<"User uploaded/discussed data">> ELSE <<>>
      stated == IF msg.role = "user"
                   /\ (Contains(content, "prefer") \/ Contains(content, "like")
                        \/ Contains(content, "want"))
                THEN <<"User stated: " \o Prefix(msg.content, SNIPPET_LEN) \o "...">>
                ELSE <<>>
      found == SelectSeq(chart_types, LAMBDA c : Contains(content, c))
      chart == IF found # <<>> THEN <<"Discussed " \o found[1] \o " charts">> ELSE <<>>
  IN data \o stated \o chart

RECURSIVE context_points(_)
context_points(messages) ==
  IF messages = <<>> THEN <<>>
  ELSE message_points(Head(messages)) \o context_points(Tail(messages))

NO_CONTEXT == "Earlier conversation trimmed (no specific context preserved)"

_extract_context_from_trimmed(messages) ==
  LET points == context_points(messages)
  IN IF points = <<>> THEN NO_CONTEXT
     ELSE "Earlier in conversation: " \o JoinPoints(Take(DictFromKeys(points), MAX_POINTS))

\* A trim that preserves context even when it discarded no message
trim_preserve_unguarded(history, st, mt, preserve_context) ==
  IF ~should_trim_conversation(history, mt)
  THEN [kept |-> history, removed |-> 0, state |-> st]
  ELSE
    LET cutoff == IndexFromEnd(user_indices(history), mt)
        trimmed_messages == SubSeq(history, 1, cutoff - 1)
        noted == add_memory_note(st, _extract_context_from_trimmed(trimmed_messages),
                                 <<"context", "conversation">>, TRUE)
    IN [kept |-> SubSeq(history, cutoff, Len(history)),
        removed |-> Len(trimmed_messages),
        state |-> IF preserve_context
                  THEN [noted EXCEPT !.inject_session_memories_next_turn = TRUE]
                  ELSE st]

\* A trim that raises the reinjection flag whether or not it preserved context
trim_flag_unguarded(history, st, mt, preserve_context) ==
  IF ~should_trim_conversation(history, mt)
  THEN [kept |-> history, removed |-> 0, state |-> st]
  ELSE
    LET cutoff == IndexFromEnd(user_indices(history), mt)
        trimmed_messages == SubSeq(history, 1, cutoff - 1)
        noted == add_memory_note(st, _extract_context_from_trimmed(trimmed_messages),
                                 <<"context", "conversation">>, TRUE)
        after == IF preserve_context /\ trimmed_messages # <<>> THEN noted ELSE st
    IN [kept |-> SubSeq(history, cutoff, Len(history)),
        removed |-> Len(trimmed_messages),
        state |-> IF trimmed_messages # <<>>
                  THEN [after EXCEPT !.inject_session_memories_next_turn = TRUE]
                  ELSE st]

\* trim_conversation(conversation_history, state, max_turns, preserve_context):
\* the kept transcript, the number of messages removed, and the state it leaves
trim_conversation(history, st, mt, preserve_context) ==
  IF ~should_trim_conversation(history, mt)
  THEN [kept |-> history, removed |-> 0, state |-> st]
  ELSE
    LET cutoff == IndexFromEnd(user_indices(history), mt)
        trimmed_messages == SubSeq(history, 1, cutoff - 1)
        kept_messages == SubSeq(history, cutoff, Len(history))
        context_summary == _extract_context_from_trimmed(trimmed_messages)
        noted == IF context_summary # ""
                 THEN add_memory_note(st, context_summary, <<"context", "conversation">>, TRUE)
                 ELSE st
    IN [kept |-> kept_messages,
        removed |-> Len(trimmed_messages),
        state |-> IF preserve_context /\ trimmed_messages # <<>>
                  THEN [noted EXCEPT !.inject_session_memories_next_turn = TRUE]
                  ELSE st]

\* sum(len(msg.get('content', '')) for msg in conversation_history)
RECURSIVE total_chars(_)
total_chars(history) ==
  IF history = <<>> THEN 0 ELSE Len(Head(history).content) + total_chars(Tail(history))

estimate_conversation_tokens(history) == total_chars(history) \div 4

\* _preserve_trimmed_context(messages, state)
_preserve_trimmed_context(messages, st) ==
  LET context == _extract_context_from_trimmed(messages)
  IN IF context # ""
     THEN add_memory_note(st, context, <<"context", "trimmed">>, TRUE)
     ELSE st

\* The older messages the newest-first loop keeps: the longest suffix of
\* older_messages whose per-message token counts, summed, fit in available
RECURSIVE kept_older(_, _)
kept_older(older, available) ==
  IF older = <<>> THEN <<>>
  ELSE LET msg == older[Len(older)]
           msg_tokens == Len(msg.content) \div 4
       IN IF msg_tokens <= available
          THEN Append(kept_older(SubSeq(older, 1, Len(older) - 1), available - msg_tokens), msg)
          ELSE <<>>

\* smart_trim_conversation(conversation_history, state, target_tokens, preserve_recent):
\* the returned transcript and the state it leaves
smart_trim_conversation(history, st, target_tokens, preserve_recent) ==
  IF estimate_conversation_tokens(history) <= target_tokens
  THEN [kept |-> history, state |-> st]
  ELSE IF UserCount(history) <= preserve_recent
  THEN [kept |-> history, state |-> st]
  ELSE
    LET preserve_from == IndexFromEnd(user_indices(history), preserve_recent)
        recent_messages == SubSeq(history, preserve_from, Len(history))
        older_messages == SubSeq(history, 1, preserve_from - 1)
        available_tokens == target_tokens - estimate_conversation_tokens(recent_messages)
        keep == kept_older(older_messages, available_tokens)
        removed == SubSeq(older_messages, 1, Len(older_messages) - Len(keep))
    IN IF available_tokens <= 0
       THEN [kept |-> recent_messages,
             state |-> [_preserve_trimmed_context(older_messages, st)
                          EXCEPT !.inject_session_memories_next_turn = TRUE]]
       ELSE [kept |-> keep \o recent_messages,
             state |-> IF removed # <<>>
                       THEN [_preserve_trimmed_context(removed, st)
                               EXCEPT !.inject_session_memories_next_turn = TRUE]
                       ELSE st]

\* ------------------------------------------------------------------------
\* memory_consolidation.py
\* ------------------------------------------------------------------------
KeywordSet(note) == Range(note.keywords)
WordSet(note) == Words(Lower(note.text))

\* A similarity that gives the text the weight of the keywords and the reverse:
\*   0.4 * keyword_similarity + 0.6 * text_similarity
similarity_text_weighted(note1, note2) ==
  LET keywords1 == Range(note1.keywords)
      keywords2 == Range(note2.keywords)
      overlap == Cardinality(keywords1 \cap keywords2)
      union == Cardinality(keywords1 \cup keywords2)
      words1 == Words(Lower(note1.text))
      words2 == Words(Lower(note2.text))
      text_overlap == Cardinality(words1 \cap words2)
      text_union == Cardinality(words1 \cup words2)
  IN IF keywords1 = {} \/ keywords2 = {}
     THEN [num |-> 0, den |-> 1]
     ELSE IF text_union > 0
     THEN [num |-> 4 * overlap * text_union + 6 * text_overlap * union,
           den |-> 10 * union * text_union]
     ELSE [num |-> 4 * overlap, den |-> 10 * union]

\* calculate_similarity(note1, note2) as the exact fraction num / den of
\*   0.6 * keyword_similarity + 0.4 * text_similarity
\* (the float expression and the fraction fall on the same side of 0.6 for
\* every keyword union up to 10 and word union up to 80)
calculate_similarity(note1, note2) ==
  LET keywords1 == KeywordSet(note1)
      keywords2 == KeywordSet(note2)
      overlap == Cardinality(keywords1 \cap keywords2)
      union == Cardinality(keywords1 \cup keywords2)
      words1 == WordSet(note1)
      words2 == WordSet(note2)
      text_overlap == Cardinality(words1 \cap words2)
      text_union == Cardinality(words1 \cup words2)
  IN IF keywords1 = {} \/ keywords2 = {}
     THEN [num |-> 0, den |-> 1]
     ELSE IF text_union > 0
     THEN [num |-> 6 * overlap * text_union + 4 * text_overlap * union,
           den |-> 10 * union * text_union]
     ELSE [num |-> 6 * overlap, den |-> 10 * union]

\* are_memories_similar(note1, note2, threshold = 0.6)
are_memories_similar(note1, note2) ==
  LET similarity == calculate_similarity(note1, note2)
  IN 10 * similarity.num >= THRESHOLD_TENTHS * similarity.den

\* sorted(notes, key=lambda n: n.last_update_date): stable, oldest first
RECURSIVE sorted_by_date(_)
sorted_by_date(notes) ==
  IF notes = <<>> THEN <<>>
  ELSE LET init == sorted_by_date(SubSeq(notes, 1, Len(notes) - 1))
           x == notes[Len(notes)]
           \* x goes after every note that is not later than it
           at == Cardinality({ i \in 1..Len(init) :
                                ~StrLess(x.last_update_date, init[i].last_update_date) })
       IN SubSeq(init, 1, at) \o <<x>> \o SubSeq(init, at + 1, Len(init))

\* sorted(notes, key=lambda n: n.last_update_date, reverse=True): stable, newest first
RECURSIVE sorted_by_date_reverse(_)
sorted_by_date_reverse(notes) ==
  IF notes = <<>> THEN <<>>
  ELSE LET init == sorted_by_date_reverse(SubSeq(notes, 1, Len(notes) - 1))
           x == notes[Len(notes)]
           at == Cardinality({ i \in 1..Len(init) :
                                ~StrLess(init[i].last_update_date, x.last_update_date) })
       IN SubSeq(init, 1, at) \o <<x>> \o SubSeq(init, at + 1, Len(init))

\* all_keywords: the keywords of the notes, concatenated
RECURSIVE all_keywords(_)
all_keywords(notes) ==
  IF notes = <<>> THEN <<>> ELSE Head(notes).keywords \o all_keywords(Tail(notes))

\* A merge that keeps every distinct keyword of the notes it merges
merge_keep_all_keywords(notes) ==
  LET sorted_notes == sorted_by_date(notes)
      most_recent == sorted_notes[Len(sorted_notes)]
  IN MemoryNote(most_recent.text, most_recent.last_update_date,
                DictFromKeys(all_keywords(sorted_notes)))

\* A merge that takes the text of the oldest note
merge_oldest_text(notes) ==
  LET sorted_notes == sorted_by_date(notes)
      most_recent == sorted_notes[Len(sorted_notes)]
      unique_keywords == Take(DictFromKeys(all_keywords(sorted_notes)), MERGE_KEYWORD_CAP)
  IN MemoryNote(sorted_notes[1].text, most_recent.last_update_date, unique_keywords)

\* _merge_similar_notes(notes): text and date of the most recent note, the
\* distinct keywords of all of them in first-seen order, capped at 5
_merge_similar_notes(notes) ==
  LET sorted_notes == sorted_by_date(notes)
      most_recent == sorted_notes[Len(sorted_notes)]
      unique_keywords == Take(DictFromKeys(all_keywords(sorted_notes)), MERGE_KEYWORD_CAP)
  IN MemoryNote(most_recent.text, most_recent.last_update_date, unique_keywords)

\* The later, not yet merged notes the loop at position i finds similar to its note
similar_indices(sorted_notes, i, merged_indices) ==
  { j \in (i + 1)..Len(sorted_notes) :
      j \notin merged_indices /\ are_memories_similar(sorted_notes[i], sorted_notes[j]) }

\* The loop of deduplicate_memories from position i on
RECURSIVE dedup_from(_, _, _, _)
dedup_from(sorted_notes, i, merged_indices, result) ==
  IF i > Len(sorted_notes) THEN result
  ELSE IF i \in merged_indices
  THEN dedup_from(sorted_notes, i + 1, merged_indices, result)
  ELSE LET found == similar_indices(sorted_notes, i, merged_indices)
           at == SelectSeq([j \in 1..Len(sorted_notes) |-> j], LAMBDA j : j \in found)
           similar_notes == <<sorted_notes[i]>> \o [k \in 1..Len(at) |-> sorted_notes[at[k]]]
       IN dedup_from(sorted_notes, i + 1, merged_indices \cup found,
                     Append(result, IF Len(similar_notes) > 1
                                    THEN _merge_similar_notes(similar_notes)
                                    ELSE sorted_notes[i]))

\* A deduplication that loses the first note of its result
deduplicate_drop_first(notes) ==
  IF notes = <<>> THEN <<>> ELSE Tail(dedup_from(sorted_by_date(notes), 1, {}, <<>>))

deduplicate_memories(notes) ==
  IF notes = <<>> THEN <<>> ELSE dedup_from(sorted_by_date(notes), 1, {}, <<>>)

\* A consolidation that forgets to clear session memory
consolidate_keep_session(st) ==
  LET deduplicated == deduplicate_memories(st.global_memory.notes \o st.session_memory.notes)
      before_count == Len(st.global_memory.notes) + Len(st.session_memory.notes)
  IN [state |-> [st EXCEPT !.global_memory.notes = deduplicated],
      stats |-> [before_count |-> before_count,
                 after_count |-> Len(deduplicated),
                 merged_count |-> before_count - Len(deduplicated),
                 session_notes_added |-> Len(st.session_memory.notes)]]

\* consolidate_session_memories(state): the state it leaves and the statistics
consolidate_session_memories(st) ==
  LET session_notes == st.session_memory.notes
      global_notes == st.global_memory.notes
      before_count == Len(global_notes) + Len(session_notes)
      deduplicated == deduplicate_memories(global_notes \o session_notes)
      after_count == Len(deduplicated)
  IN [state |-> [st EXCEPT !.global_memory.notes = deduplicated,
                           !.session_memory = [notes |-> <<>>]],
      stats |-> [before_count |-> before_count,
                 after_count |-> after_count,
                 merged_count |-> before_count - after_count,
                 session_notes_added |-> Len(session_notes)]]

\* datetime.now(timezone.utc) - datetime.fromisoformat(note.last_update_date):
\* a day-precision date parses to a naive datetime, and subtracting it from the
\* aware "now" raises TypeError; a string that does not parse raises ValueError.
\* Either way the bare "except:" of the caller runs.
age_days_raises(date) == TRUE

\* assess_memory_quality(note): the score in tenths and the issues
assess_memory_quality(note) ==
  LET text_len == Len(note.text)
      text_lower == Lower(note.text)
      relevant_keywords == SelectSeq(note.keywords, LAMBDA kw : Contains(text_lower, Lower(kw)))
      no_keywords == note.keywords = <<>>
      too_short == text_len < TEXT_MIN_LEN
      too_long == ~too_short /\ text_len > TEXT_MAX_LEN
      bad_date == age_days_raises(note.last_update_date)
      \* relevance = len(relevant_keywords) / len(note.keywords) < 0.5
      mismatched == relevant_keywords # <<>>
                    /\ 2 * Len(relevant_keywords) < Len(note.keywords)
      score == 10 - (IF no_keywords THEN 3 ELSE 0)
                  - (IF too_short THEN 3 ELSE 0)
                  - (IF too_long THEN 2 ELSE 0)
                  - (IF bad_date THEN 1 ELSE 0)
                  - (IF mismatched THEN 2 ELSE 0)
  IN [score |-> IF score < 0 THEN 0 ELSE score,
      issues |-> (IF no_keywords THEN <<"No keywords">> ELSE <<>>)
                 \o (IF too_short THEN <<"Text too short">> ELSE <<>>)
                 \o (IF too_long THEN <<"Text too long">> ELSE <<>>)
                 \o (IF bad_date THEN <<"Invalid date format">> ELSE <<>>)
                 \o (IF mismatched THEN <<"Keywords not well matched to text">> ELSE <<>>),
      is_quality |-> score >= 7]

\* filter_low_quality_memories(notes, min_score = 0.5)
filter_low_quality_memories(notes) ==
  SelectSeq(notes, LAMBDA note : assess_memory_quality(note).score >= MIN_SCORE_TENTHS)

\* The age filter of optimize_memories and cleanup_old_memories: a note whose
\* age cannot be computed is kept
filter_by_age(notes, max_age) ==
  SelectSeq(notes, LAMBDA note : age_days_raises(note.last_update_date))

\* cleanup_old_memories(state, max_age_days, max_memories): the state it leaves
\* and the statistics
cleanup_old_memories(st, max_age_days, max_memories) ==
  LET notes == st.global_memory.notes
      aged == filter_by_age(notes, max_age_days)
      recent_notes == IF Len(aged) > max_memories
                      THEN Take(sorted_by_date_reverse(aged), max_memories)
                      ELSE aged
  IN [state |-> [st EXCEPT !.global_memory.notes = recent_notes],
      stats |-> [before_count |-> Len(notes),
                 after_count |-> Len(recent_notes),
                 removed_count |-> Len(notes) - Len(recent_notes)]]

\* optimize_memories(state): the state it leaves and the statistics
optimize_memories(st) ==
  LET notes == st.global_memory.notes
      after_dedup == deduplicate_memories(notes)
      after_quality == filter_low_quality_memories(after_dedup)
      recent_notes == filter_by_age(after_quality, MAX_AGE_DAYS)
      capped == IF Len(recent_notes) > MAX_COUNT
                THEN Take(sorted_by_date_reverse(recent_notes), MAX_COUNT)
                ELSE recent_notes
      final_notes == sorted_by_date_reverse(capped)
  IN [state |-> [st EXCEPT !.global_memory.notes = final_notes],
      stats |-> [before_count |-> Len(notes),
                 after_deduplication |-> Len(after_dedup),
                 after_quality_filter |-> Len(after_quality),
                 final_count |-> Len(final_notes),
                 removed_total |-> Len(notes) - Len(final_notes)]]

\* ------------------------------------------------------------------------
\* memory_injection.py
\* ------------------------------------------------------------------------
\* "\n".join(lines)
RECURSIVE JoinLines(_)
JoinLines(lines) ==
  IF lines = <<>> THEN ""
  ELSE IF Len(lines) = 1 THEN lines[1]
  ELSE lines[1] \o "\n" \o JoinLines(Tail(lines))

render_memories_as_markdown(memories, title) ==
  IF memories = <<>> THEN ""
  ELSE JoinLines(<<"## " \o title \o "\n">> \o
         [i \in 1..Len(memories) |->
            "- " \o memories[i].text \o " (Updated: " \o memories[i].last_update_date \o ")"])

\* yaml.dump of one profile value
yaml_list(items) ==
  IF items = <<>> THEN " []"
  ELSE JoinLines(<<"">> \o [i \in 1..Len(items) |-> "  - " \o items[i]])
yaml_scalar(v) == IF v = "None" THEN " null" ELSE " " \o v

\* render_profile_as_yaml(state): the mapping user_profile, keys in insertion order
render_profile_as_yaml(st) ==
  JoinLines(<<"user_profile:",
              "  user_id:" \o yaml_scalar(st.user_id),
              "  preferred_chart_types:" \o yaml_list(st.profile.preferred_chart_types),
              "  color_scheme:" \o yaml_scalar(st.profile.color_scheme),
              "  audience:" \o yaml_scalar(st.profile.audience),
              "  domain:" \o yaml_scalar(st.profile.domain),
              "  technical_level:" \o yaml_scalar(st.profile.technical_level)>>) \o "\n"

\* str.capitalize() of a lower-case chart type: the first letter in upper case
UpperOf ==
  [c \in { Char(LowerAlpha, i) : i \in 1..Len(LowerAlpha) } |->
     Char(UpperAlpha, CHOOSE i \in 1..Len(LowerAlpha) : Char(LowerAlpha, i) = c)]
Capitalize(s) ==
  IF s = "" THEN ""
  ELSE (IF Head(s) \in DOMAIN UpperOf THEN UpperOf[Head(s)] ELSE Head(s)) \o Lower(Tail(s))

HISTORY_LIMIT == 5
STORY_LEN == 60
DATE_LEN == 10

\* render_visualization_history(state, limit = 5); the status symbols are the
\* check mark and the ballot x, written here in ASCII
render_visualization_history(st) ==
  IF st.visualization_history = <<>> THEN ""
  ELSE LET recent == LastN(st.visualization_history, HISTORY_LIMIT)
       IN JoinLines(<<"## Recent Visualizations\n">> \o
            [i \in 1..Len(recent) |->
               "- " \o (IF recent[i].success THEN "(check)" ELSE "(x)") \o " "
               \o Capitalize(recent[i].chart_type) \o ": "
               \o Prefix(recent[i].story_summary, STORY_LEN) \o "... ("
               \o Prefix(recent[i].timestamp, DATE_LEN) \o ")"])

\* _get_memory_usage_instructions(): the fixed block, by its heading
MEMORY_USAGE_INSTRUCTIONS == "## Using Memories\n\n### How to Apply Memories"

\* "\n\n".join(sections)
RECURSIVE JoinSections(_)
JoinSections(sections) ==
  IF sections = <<>> THEN ""
  ELSE IF Len(sections) = 1 THEN sections[1]
  ELSE sections[1] \o "\n\n" \o JoinSections(Tail(sections))

\* The sections inject_memories_into_prompt collects, in order
memory_sections(st, include_frontmatter, include_global, include_session, include_history) ==
  LET sections ==
        (IF include_frontmatter
         THEN <<"---\n" \o render_profile_as_yaml(st) \o "---\n">> ELSE <<>>)
        \o (IF include_global /\ st.global_memory.notes # <<>>
            THEN <<render_memories_as_markdown(st.global_memory.notes, "Long-Term Preferences")>>
            ELSE <<>>)
        \o (IF include_session /\ st.session_memory.notes # <<>>
            THEN <<render_memories_as_markdown(st.session_memory.notes,
                                               "Current Session Context")>>
            ELSE <<>>)
        \o (IF include_history /\ render_visualization_history(st) # ""
            THEN <<render_visualization_history(st)>> ELSE <<>>)
  IN IF sections # <<>> THEN Append(sections, MEMORY_USAGE_INSTRUCTIONS) ELSE sections

\* The enhanced prompt with the base prompt placed before the memory context
inject_base_prompt_first(base_prompt, st, include_frontmatter, include_global, include_session, include_history) ==
  base_prompt \o "\n\n"
    \o JoinSections(memory_sections(st, include_frontmatter, include_global,
                                     include_session, include_history))

\* inject_memories_into_prompt(base_prompt, state, include_*): the enhanced prompt
inject_memories_into_prompt(base_prompt, st, include_frontmatter, include_global, include_session, include_history) ==
  JoinSections(memory_sections(st, include_frontmatter, include_global,
                               include_session, include_history))
    \o "\n\n" \o base_prompt

\* A reinjection message that leaves the flag as it was
reinjection_keeps_flag(st) ==
  [message |-> "# Context Reinjection\n\n"
               \o "The conversation was trimmed to manage context length. "
               \o "Here are the key points from earlier in this session:\n\n"
               \o render_memories_as_markdown(st.session_memory.notes,
                                              "Session Context (Reinjected)")
               \o "\n\nContinue the conversation with this context in mind.",
   state |-> st]

\* create_reinjection_message(state): the message and the state it leaves
create_reinjection_message(st) ==
  [message |-> "# Context Reinjection\n\n"
               \o "The conversation was trimmed to manage context length. "
               \o "Here are the key points from earlier in this session:\n\n"
               \o render_memories_as_markdown(st.session_memory.notes,
                                              "Session Context (Reinjected)")
               \o "\n\nContinue the conversation with this context in mind.",
   state |-> [st EXCEPT !.inject_session_memories_next_turn = FALSE]]

\* ------------------------------------------------------------------------
\* state_storage.py
\* ------------------------------------------------------------------------
Digits == "0123456789"

\* c.isalnum() for the characters the user ids of the model are written in
IsAlnum(c) ==
  \/ \E i \in 1..Len(UpperAlpha) : Char(UpperAlpha, i) = c
  \/ \E i \in 1..Len(LowerAlpha) : Char(LowerAlpha, i) = c
  \/ \E i \in 1..Len(Digits) : Char(Digits, i) = c

\* A file name taken from the user id as it is
unsanitized_user_id(uid) == uid

\* "".join(c for c in user_id if c.isalnum() or c in ('_', '-'))
RECURSIVE safe_user_id(_)
safe_user_id(uid) ==
  IF uid = "" THEN ""
  ELSE (IF IsAlnum(Head(uid)) \/ Head(uid) \in {"_", "-"} THEN Head(uid) ELSE "")
       \o safe_user_id(Tail(uid))

\* get_state_file_path(user_id): the name of the file inside the states directory
get_state_file_path(uid) == safe_user_id(uid) \o ".json"

\* An empty states directory, and an empty dict
NoFiles == [name \in {} |-> 0]
EmptyDict == [k \in {} |-> 0]

\* dict.get(key, default)
Get(dict, key, default) == IF key \in DOMAIN dict THEN dict[key] ELSE default

\* PlotlyAgentState.to_dict
to_dict(st) ==
  [user_id |-> st.user_id,
   profile |-> st.profile,
   global_memory |-> st.global_memory,
   session_memory |-> st.session_memory,
   visualization_history |-> st.visualization_history,
   inject_session_memories_next_turn |-> st.inject_session_memories_next_turn]

\* PlotlyAgentState.from_dict
from_dict(data) ==
  [user_id |-> Get(data, "user_id", "anonymous"),
   profile |-> Get(data, "profile", EmptyDict),
   global_memory |-> Get(data, "global_memory", [notes |-> <<>>]),
   session_memory |-> Get(data, "session_memory", [notes |-> <<>>]),
   visualization_history |-> Get(data, "visualization_history", <<>>),
   inject_session_memories_next_turn |->
     Get(data, "inject_session_memories_next_turn", FALSE)]

\* What a file holds: the JSON text of a dict, or bytes json.load cannot parse
JsonFile(data) == [kind |-> "json", data |-> data]
CorruptFile == [kind |-> "corrupt", data |-> EmptyDict]

\* The directory with one file written or replaced
WriteFile(fs, name, content) ==
  [n \in DOMAIN fs \cup {name} |-> IF n = name THEN content ELSE fs[n]]

\* save_state(state): the boolean it returns and the directory it leaves
save_state(st, fs) ==
  [ok |-> TRUE,
   files |-> WriteFile(fs, get_state_file_path(st.user_id), JsonFile(to_dict(st)))]

\* What load_state returns: a state, or None
Returned(st) == [returned |-> "state", state |-> st]
ReturnedNone == [returned |-> "None"]

\* A load that returns the default state of a missing user without saving it
load_state_without_create(uid, fs, create_if_missing) ==
  LET file_path == get_state_file_path(uid)
  IN IF file_path \in DOMAIN fs /\ fs[file_path].kind = "json"
     THEN [result |-> Returned(from_dict(fs[file_path].data)), files |-> fs]
     ELSE IF create_if_missing
     THEN [result |-> Returned(create_default(uid)), files |-> fs]
     ELSE [result |-> ReturnedNone, files |-> fs]

\* load_state(user_id, create_if_missing): what it returns and the directory it leaves
load_state(uid, fs, create_if_missing) ==
  LET file_path == get_state_file_path(uid)
  IN IF file_path \notin DOMAIN fs
     THEN IF create_if_missing
          THEN [result |-> Returned(create_default(uid)),
                files |-> save_state(create_default(uid), fs).files]
          ELSE [result |-> ReturnedNone, files |-> fs]
     ELSE IF fs[file_path].kind = "json"
     THEN [result |-> Returned(from_dict(fs[file_path].data)), files |-> fs]
     \* json.load raised: the except branch
     ELSE IF create_if_missing
     THEN [result |-> Returned(create_default(uid)), files |-> fs]
     ELSE [result |-> ReturnedNone, files |-> fs]

\* ------------------------------------------------------------------------
\* Inputs
\* ------------------------------------------------------------------------
NoteTexts == {" bar charts"}

KeywordInputs ==
  { <<" Bar", " ", "bar", "line", "pie", "color", "style", "theme">>,
    <<"line", "pie", "color", "style", "theme">> }

Roles == {"user", "assistant"}
Contents == {"hello", "I want a bar chart of my data", "use a Line plot"}
Messages == { Message(r, c) : r \in Roles, c \in Contents }

\* The transcripts a trim may be given
Transcripts == SeqsUpTo(Messages, MaxLen)

\* Two transcripts: one with extractable context that starts with a user turn,
\* one without that starts with an assistant turn
WithContext ==
  <<Message("user", "I want a bar chart of my data"), Message("assistant", "hello"),
    Message("user", "use a Line plot")>>
WithoutContext == <<Message("assistant", "hello"), Message("user", "hello")>>

\* The calls of trim_conversation the state machine makes: one that discards and
\* preserves, one that discards without preserving, one that discards nothing
TrimCalls ==
  { [history |-> WithContext, max_turns |-> 1, preserve_context |-> TRUE],
    [history |-> WithoutContext, max_turns |-> 0, preserve_context |-> FALSE],
    [history |-> WithContext, max_turns |-> 0, preserve_context |-> TRUE] }

\* The calls of smart_trim_conversation it makes: one that keeps an older message
\* and discards another, one whose recent part alone exceeds the target, one with
\* preserve_recent = 0, one already within the target
SmartTrimCalls ==
  { [history |-> WithContext, target_tokens |-> 4, preserve_recent |-> 1],
    [history |-> WithContext, target_tokens |-> 0, preserve_recent |-> 1],
    [history |-> WithContext, target_tokens |-> 0, preserve_recent |-> 0],
    [history |-> WithoutContext, target_tokens |-> 4, preserve_recent |-> 1] }

\* Total number of notes held
NoteCount == Len(session_memory.notes) + Len(global_memory.notes)

\* The state variables take the fields of st
SetState(st) ==
  /\ user_id' = st.user_id
  /\ profile' = st.profile
  /\ global_memory' = st.global_memory
  /\ session_memory' = st.session_memory
  /\ visualization_history' = st.visualization_history
  /\ inject_session_memories_next_turn' = st.inject_session_memories_next_turn

\* The state variables are the fields of st
StateIs(st) ==
  /\ user_id = st.user_id
  /\ profile = st.profile
  /\ global_memory = st.global_memory
  /\ session_memory = st.session_memory
  /\ visualization_history = st.visualization_history
  /\ inject_session_memories_next_turn = st.inject_session_memories_next_turn

\* ------------------------------------------------------------------------
\* Operations
\* ------------------------------------------------------------------------
Tick ==
  /\ clock < Len(Days)
  /\ clock' = clock + 1
  /\ op' = "tick" /\ arg' = <<>> /\ ret' = <<>>
  /\ UNCHANGED <<state_vars, conversation_history, max_turns, files, appended,
                 trimmedSinceReinject, second_orchestrator>>

AddMemoryNote ==
  /\ NoteCount < MaxNotes
  /\ \E text \in NoteTexts, keywords \in KeywordInputs, to_session \in BOOLEAN :
       \E st \in {add_memory_note(State, text, keywords, to_session)} :
         /\ SetState(st)
         /\ op' = "add_memory_note"
         /\ arg' = [text |-> text, keywords |-> keywords, to_session |-> to_session]
         /\ ret' = new_note(text, keywords)
  /\ UNCHANGED <<clock, conversation_history, max_turns, files, appended,
                 trimmedSinceReinject, second_orchestrator>>

\* trim_conversation on the transcript h; the caller keeps the returned transcript
DoTrim(h, mt, preserve_context) ==
  \E r \in {trim_conversation(h, State, mt, preserve_context)} :
     /\ SetState(r.state)
     /\ conversation_history' = r.kept
     /\ op' = "trim_conversation"
     /\ arg' = [history |-> h, max_turns |-> mt, preserve_context |-> preserve_context]
     /\ ret' = [kept |-> r.kept, removed |-> r.removed]
     /\ trimmedSinceReinject' = (trimmedSinceReinject \/ r.removed > 0)
     /\ UNCHANGED <<clock, max_turns, files, appended, second_orchestrator>>

TrimConversation ==
  /\ NoteCount < MaxNotes
  /\ \E c \in TrimCalls : DoTrim(c.history, c.max_turns, c.preserve_context)

SmartTrimConversation ==
  /\ NoteCount < MaxNotes
  /\ \E c \in SmartTrimCalls :
       \E r \in {smart_trim_conversation(c.history, State, c.target_tokens, c.preserve_recent)} :
          /\ SetState(r.state)
          /\ conversation_history' = r.kept
          /\ op' = "smart_trim_conversation"
          /\ arg' = c
          /\ ret' = r.kept
          /\ trimmedSinceReinject' = (trimmedSinceReinject \/ Len(r.kept) < Len(c.history))
  /\ UNCHANGED <<clock, max_turns, files, appended, second_orchestrator>>

ConsolidateSessionMemories ==
  \E r \in {consolidate_session_memories(State)} :
     /\ SetState(r.state)
     /\ op' = "consolidate_session_memories"
     /\ arg' = <<>>
     /\ ret' = r.stats
     /\ UNCHANGED <<clock, conversation_history, max_turns, files, appended,
                 trimmedSinceReinject, second_orchestrator>>

OptimizeMemories ==
  \E r \in {optimize_memories(State)} :
     /\ SetState(r.state)
     /\ op' = "optimize_memories"
     /\ arg' = <<>>
     /\ ret' = r.stats
     /\ UNCHANGED <<clock, conversation_history, max_turns, files, appended,
                 trimmedSinceReinject, second_orchestrator>>

ClearSessionMemory ==
  /\ \E st \in {clear_session_memory(State)} : SetState(st)
  /\ op' = "clear_session_memory" /\ arg' = <<>> /\ ret' = <<>>
  /\ UNCHANGED <<clock, conversation_history, max_turns, files, appended,
                 trimmedSinceReinject, second_orchestrator>>

\* The inputs of the n-th add_visualization_to_history call of a run: the chart
\* types in rotation, a summary that names the call, code on two calls of three
ChartTypeInputs == <<"bar", "line", "scatter">>
nth_entry(n) ==
  history_entry(ChartTypeInputs[(n % Len(ChartTypeInputs)) + 1],
                "story " \o ToString(n),
                IF n % 3 = 0 THEN "" ELSE "fig = px.bar(df)",
                n % 2 = 0)

AddVisualizationToHistory ==
  /\ Len(appended) < MaxAppends
  /\ \E entry \in {nth_entry(Len(appended) + 1)} :
       /\ visualization_history' = add_visualization_to_history(visualization_history, entry)
       /\ appended' = Append(appended, entry)
       /\ op' = "add_visualization_to_history"
       /\ arg' = entry
       /\ ret' = <<>>
  /\ UNCHANGED <<user_id, profile, global_memory, session_memory,
                 inject_session_memories_next_turn, clock, conversation_history,
                 max_turns, files, trimmedSinceReinject, second_orchestrator>>

\* inject_memories_into_prompt(base_prompt, state) with every section included
InjectMemoriesIntoPrompt ==
  /\ op' = "inject_memories_into_prompt"
  /\ arg' = <<>>
  /\ ret' = inject_memories_into_prompt("You are a helpful assistant.", State,
                                         TRUE, TRUE, TRUE, TRUE)
  /\ UNCHANGED <<state_vars, clock, conversation_history, max_turns, files, appended,
                 trimmedSinceReinject, second_orchestrator>>

CreateReinjectionMessage ==
  \E r \in {create_reinjection_message(State)} :
     /\ SetState(r.state)
     /\ op' = "create_reinjection_message"
     /\ arg' = <<>>
     /\ ret' = r.message
     /\ trimmedSinceReinject' = FALSE
     /\ UNCHANGED <<clock, conversation_history, max_turns, files, appended, second_orchestrator>>

\* ------------------------------------------------------------------------
\* Spec: the memory operations, in any order, from a default state
\* ------------------------------------------------------------------------
Init ==
  /\ StateIs(create_default("demo"))
  /\ clock = 1
  /\ conversation_history = <<>>
  /\ max_turns = 0
  /\ files = NoFiles
  /\ op = "init" /\ arg = <<>> /\ ret = <<>>
  /\ appended = <<>>
  /\ trimmedSinceReinject = FALSE
  /\ second_orchestrator = NoOrchestrator

Next ==
  \/ AddMemoryNote
  \/ TrimConversation
  \/ SmartTrimConversation
  \/ ConsolidateSessionMemories
  \/ OptimizeMemories
  \/ ClearSessionMemory
  \/ InjectMemoriesIntoPrompt
  \/ CreateReinjectionMessage

Spec == Init /\ [][Next]_vars

\* ------------------------------------------------------------------------
\* SpecHistory: a run of add_visualization_to_history calls as the days pass
\* ------------------------------------------------------------------------
NextHistory ==
  \/ Tick
  \/ AddVisualizationToHistory

SpecHistory == Init /\ [][NextHistory]_vars

\* C3: after every add_visualization_to_history call the history holds at most
\* 50 entries, and they are the most recently appended min(n, 50) entries in
\* the order they were appended.
C3_HistoryBound ==
  /\ Len(visualization_history) <= HISTORY_CAP
  /\ Len(visualization_history) =
       (IF Len(appended) < HISTORY_CAP THEN Len(appended) ELSE HISTORY_CAP)
  /\ \A i \in 1..Len(visualization_history) :
       visualization_history[i] =
         appended[Len(appended) - Len(visualization_history) + i]

\* C3 witness: more than 50 entries were appended and the oldest were evicted
C3_Witness ==
  /\ op = "add_visualization_to_history"
  /\ Len(appended) > HISTORY_CAP + 1
  /\ Len(visualization_history) = HISTORY_CAP
  /\ visualization_history[1] # appended[1]

\* ------------------------------------------------------------------------
\* SpecConsolidate: consolidate_session_memories on any global and session
\* note lists over a small universe of notes
\* ------------------------------------------------------------------------
\* Notes as add_memory_note stores them: stripped text, clean keywords, a day
ConsolidateTexts == {"bar charts", "line plots"}
ConsolidateKeywords == {<<"chart">>, <<"chart", "color">>}
NoteUniverse ==
  { MemoryNote(t, Days[d], k) :
      t \in ConsolidateTexts, d \in 1..Len(Days), k \in ConsolidateKeywords }

InitConsolidate ==
  /\ user_id = "demo"
  /\ profile = DefaultProfile
  /\ \E g \in SeqsUpTo(NoteUniverse, MaxConsolidate),
        n \in SeqsUpTo(NoteUniverse, MaxConsolidate) :
       /\ Len(g) + Len(n) <= MaxConsolidate
       /\ global_memory = [notes |-> g]
       /\ session_memory = [notes |-> n]
  /\ visualization_history = <<>>
  /\ inject_session_memories_next_turn \in BOOLEAN
  /\ clock = Len(Days)
  /\ conversation_history = <<>>
  /\ max_turns = 0
  /\ files = NoFiles
  /\ op = "init" /\ arg = <<>> /\ ret = <<>>
  /\ appended = <<>>
  /\ trimmedSinceReinject = FALSE
  /\ second_orchestrator = NoOrchestrator

NextConsolidate == ConsolidateSessionMemories

SpecConsolidate == InitConsolidate /\ [][NextConsolidate]_vars

\* Some two distinct notes of the list are similar
HasSimilarPair(notes) ==
  \E i, j \in 1..Len(notes) : i < j /\ are_memories_similar(notes[i], notes[j])

\* C1: after consolidate_session_memories returns, no two distinct notes of
\* global memory are similar (similarity at or above 0.6), so deduplicating
\* the result again merges nothing.
C1_NoSimilarPairAfterConsolidation ==
  op = "consolidate_session_memories" =>
    /\ ~HasSimilarPair(global_memory.notes)
    /\ Len(deduplicate_memories(global_memory.notes)) = Len(global_memory.notes)

\* C2: after consolidate_session_memories returns, session memory holds no
\* note, whatever session and global memory held before.
C2_SessionCleared ==
  op = "consolidate_session_memories" => session_memory.notes = <<>>

\* C2 witness: a consolidation that found notes in session memory
C2_Witness ==
  /\ op = "consolidate_session_memories"
  /\ ret.session_notes_added > 0
  /\ session_memory.notes = <<>>

\* C10: deduplication never lengthens a list and empties only the empty list:
\* consolidate_session_memories reports after_count <= before_count and
\* merged_count >= 0, and leaves global memory non-empty whenever global or
\* session memory held a note.
C10_DedupShrinksOrPreserves ==
  op = "consolidate_session_memories" =>
    /\ ret.after_count = Len(global_memory.notes)
    /\ ret.after_count <= ret.before_count
    /\ ret.merged_count >= 0
    /\ (ret.before_count > 0 => global_memory.notes # <<>>)
    /\ (global_memory.notes = <<>> => ret.before_count = 0)

\* C10 witness: a consolidation that merged notes and left some
C10_Witness ==
  /\ op = "consolidate_session_memories"
  /\ ret.merged_count > 0
  /\ ret.after_count < ret.before_count
  /\ global_memory.notes # <<>>

\* ------------------------------------------------------------------------
\* SpecTrim: trim_conversation, again and again with no turn added, on any
\* transcript and max_turns
\* ------------------------------------------------------------------------
\* The states a trim starts from: a fresh one, and one that holds a session note
TrimStates ==
  { create_default("demo"),
    [create_default("demo") EXCEPT
       !.session_memory.notes =
          <<MemoryNote("bar charts", Days[1], <<"bar", "chart">>)>>] }

InitTrim ==
  /\ \E st \in TrimStates : StateIs(st)
  /\ clock = 1
  /\ conversation_history \in Transcripts
  /\ max_turns \in 0..MaxTurnsArg
  /\ files = NoFiles
  /\ op = "init" /\ arg = <<>> /\ ret = <<>>
  /\ appended = <<>>
  /\ trimmedSinceReinject = FALSE
  /\ second_orchestrator = NoOrchestrator

\* The caller trims its transcript with its max_turns
TrimOwnConversation ==
  \E preserve_context \in BOOLEAN :
     DoTrim(conversation_history, max_turns, preserve_context)

NextTrim == TrimOwnConversation

SpecTrim == InitTrim /\ [][NextTrim]_vars

\* C4: trim_conversation is idempotent: called on the transcript a first call
\* returned, with the same max_turns and no turn added in between, it returns
\* that transcript with a removed count of 0 and leaves the state unchanged.
C4_TrimIdempotent ==
  [][ ( /\ op = "trim_conversation"
        /\ op' = "trim_conversation"
        /\ arg'.history = ret.kept
        /\ arg'.max_turns = arg.max_turns )
      => ( /\ ret'.kept = ret.kept
           /\ ret'.removed = 0
           /\ UNCHANGED state_vars ) ]_vars

\* The context note a trim writes
IsContextNote(note) == note.keywords = <<"context", "conversation">>

\* C4 witness: a second trim has run on the transcript a discarding, context
\* preserving first trim returned
C4_Witness ==
  /\ op = "trim_conversation"
  /\ ret.removed = 0
  /\ arg.history = ret.kept
  /\ arg.preserve_context
  /\ inject_session_memories_next_turn
  /\ session_memory.notes # <<>>
  /\ IsContextNote(session_memory.notes[Len(session_memory.notes)])

C6_TrimFrame ==
  [][ op' = "trim_conversation" =>
        /\ UNCHANGED <<user_id, profile, global_memory, visualization_history>>
        /\ IF ret'.removed > 0 /\ arg'.preserve_context
           THEN /\ Len(session_memory'.notes) = Len(session_memory.notes) + 1
                /\ SubSeq(session_memory'.notes, 1, Len(session_memory.notes))
                     = session_memory.notes
                /\ LET note == session_memory'.notes[Len(session_memory'.notes)]
                       discarded == SubSeq(arg'.history, 1, ret'.removed)
                       signal == \E i \in 1..Len(discarded) :
                                    message_points(discarded[i]) # <<>>
                   IN /\ IsContextNote(note)
                      /\ IF signal
                         THEN Prefix(note.text, 25) = "Earlier in conversation: "
                         ELSE note.text = NO_CONTEXT
                /\ inject_session_memories_next_turn'
           ELSE UNCHANGED <<session_memory, inject_session_memories_next_turn>> ]_vars

\* C6 witness: a discarding trim wrote the placeholder note and set the flag
C6_Witness ==
  /\ op = "trim_conversation"
  /\ ret.removed > 0
  /\ arg.preserve_context
  /\ inject_session_memories_next_turn
  /\ session_memory.notes # <<>>
  /\ session_memory.notes[Len(session_memory.notes)].text = NO_CONTEXT

\* ------------------------------------------------------------------------
\* Claims about Spec
\* ------------------------------------------------------------------------
\* C7: inject_session_memories_next_turn is true only if some trim discarded
\* content after the most recent create_reinjection_message (or since the
\* start), and create_reinjection_message always leaves it false.
C7_FlagOnlyAfterDiscardingTrim ==
  /\ inject_session_memories_next_turn => trimmedSinceReinject
  /\ op = "create_reinjection_message" => ~inject_session_memories_next_turn

\* Every note of the list has at most 5 keywords
KeywordsCapped(notes) == \A i \in 1..Len(notes) : Len(notes[i].keywords) <= KEYWORD_CAP

\* C8: the note add_memory_note returns has at most 5 keywords, and so has
\* every note of session and global memory, merged notes included, after any
\* sequence of add_memory_note, trims, consolidation and optimization.
C8_KeywordCap ==
  /\ op = "add_memory_note" => Len(ret.keywords) <= KEYWORD_CAP
  /\ KeywordsCapped(session_memory.notes)
  /\ KeywordsCapped(global_memory.notes)

\* C8 witness: a consolidation merged notes that had more than 5 distinct
\* keywords between them, and the merged note holds exactly 5
C8_Witness ==
  /\ op = "consolidate_session_memories"
  /\ ret.merged_count > 0
  /\ \E i \in 1..Len(global_memory.notes) :
       /\ Len(global_memory.notes[i].keywords) = MERGE_KEYWORD_CAP
       /\ "bar" \in Range(global_memory.notes[i].keywords)
       /\ "style" \in Range(global_memory.notes[i].keywords)

\* The non-blank keywords, trimmed and lower-cased, in input order
normalized(keywords) ==
  LET kept == SelectSeq(keywords, LAMBDA k : Strip(k) # "")
  IN [i \in 1..Len(kept) |-> Lower(Strip(kept[i]))]

\* C9: the keywords of the note add_memory_note creates are the input
\* keywords trimmed and lower-cased, duplicates removed (first occurrence
\* kept), then capped at 5; no keyword is stored twice.
C9_KeywordsDeduplicated ==
  op = "add_memory_note" =>
    /\ ret.keywords = Take(DictFromKeys(normalized(arg.keywords)), KEYWORD_CAP)
    /\ Cardinality(Range(ret.keywords)) = Len(ret.keywords)

\* ------------------------------------------------------------------------
\* SpecSameKeywords: consolidation of session notes that all carry the same
\* keyword set, into an empty global memory
\* ------------------------------------------------------------------------
\* Keyword lists by the set they carry: in two orders, and with a keyword
\* repeated (add_memory_note stores a repeated keyword as given)
SameKeywordLists ==
  { { <<"chart_type", "bar">>, <<"bar", "chart_type">>, <<"bar", "bar", "chart_type">> },
    { <<"color">>, <<"color", "color">> } }

SameKeywordTexts == {"User likes bar charts", "Prefers blue for sales"}

\* Session notes are appended with the date of the day: dates never decrease
DatesAscend(notes) ==
  \A i \in 1..(Len(notes) - 1) :
     ~StrLess(notes[i + 1].last_update_date, notes[i].last_update_date)

InitSameKeywords ==
  /\ user_id = "demo"
  /\ profile = DefaultProfile
  /\ global_memory = [notes |-> <<>>]
  /\ \E lists \in SameKeywordLists :
       \E n \in SeqsUpTo({ MemoryNote(t, Days[d], k) :
                             t \in SameKeywordTexts, d \in 1..Len(Days), k \in lists },
                         MaxConsolidate) :
          /\ n # <<>>
          /\ DatesAscend(n)
          /\ session_memory = [notes |-> n]
  /\ visualization_history = <<>>
  /\ inject_session_memories_next_turn = FALSE
  /\ clock = Len(Days)
  /\ conversation_history = <<>>
  /\ max_turns = 0
  /\ files = NoFiles
  /\ op = "init" /\ arg = <<>> /\ ret = <<>>
  /\ appended = <<>>
  /\ trimmedSinceReinject = FALSE
  /\ second_orchestrator = NoOrchestrator

NextSameKeywords == ConsolidateSessionMemories

SpecSameKeywords == InitSameKeywords /\ [][NextSameKeywords]_vars

\* C11: consolidating a non-empty list of session notes that all carry the
\* same non-empty keyword set into an empty global memory reports
\* after_count = 1 and leaves one global note whose keywords are that set, in
\* the order the first note lists them (a lone note keeps its own list).
C11_SameKeywordsMergeToOne ==
  [][ ( /\ op = "init"
        /\ op' = "consolidate_session_memories" )
      => ( /\ ret'.after_count = 1
           /\ Len(global_memory'.notes) = 1
           /\ Range(global_memory'.notes[1].keywords)
                = Range(session_memory.notes[1].keywords)
           /\ global_memory'.notes[1].keywords =
                (IF Len(session_memory.notes) = 1
                 THEN session_memory.notes[1].keywords
                 ELSE DictFromKeys(session_memory.notes[1].keywords)) ) ]_vars

\* C11 witness: three notes with different texts and differently ordered
\* keyword lists were merged into one note
C11_Witness ==
  /\ op = "consolidate_session_memories"
  /\ ret.before_count = 3
  /\ ret.session_notes_added = 3
  /\ ret.merged_count = 2
  /\ global_memory.notes[1].keywords = <<"bar", "chart_type">>

\* ------------------------------------------------------------------------
\* SpecProfile: update_profile calls on a state made by create_default
\* ------------------------------------------------------------------------
\* Field names a caller may pass: the profile fields, a state attribute that
\* is not a profile field, an unknown name, the empty name
FieldInputs ==
  {"preferred_chart_types", "color_scheme", "audience", "domain", "technical_level",
   "user_id", "not_a_field", ""}

\* Values a caller may pass for a field
ValueInputs(field) ==
  IF field = "preferred_chart_types" THEN {<<"bar">>, <<"bar", "line">>}
  ELSE {"executives", "colorblind"}

UpdateProfile ==
  /\ \E field \in FieldInputs :
       \E value \in ValueInputs(field) :
          \E r \in {update_profile(State, field, value)} :
             /\ SetState(r.state)
             /\ op' = "update_profile"
             /\ arg' = [field |-> field, value |-> value]
             /\ ret' = r.ok
  /\ UNCHANGED <<clock, conversation_history, max_turns, files, appended,
                 trimmedSinceReinject, second_orchestrator>>

NextProfile == UpdateProfile

SpecProfile == Init /\ [][NextProfile]_vars

\* The recognized profile fields
RecognizedFields ==
  {"preferred_chart_types", "color_scheme", "audience", "domain", "technical_level"}

\* C12: update_profile returns true and sets profile[field] to value exactly
\* when field is a recognized profile field; for any other name it returns
\* false, creates no field and leaves the whole state unchanged.
C12_UpdateProfileRecognizedOnly ==
  [][ op' = "update_profile" =>
        /\ ret' = (arg'.field \in RecognizedFields)
        /\ DOMAIN profile' = RecognizedFields
        /\ UNCHANGED <<user_id, global_memory, session_memory, visualization_history,
                       inject_session_memories_next_turn>>
        /\ IF arg'.field \in RecognizedFields
           THEN /\ profile'[arg'.field] = arg'.value
                /\ \A k \in RecognizedFields \ {arg'.field} : profile'[k] = profile[k]
           ELSE profile' = profile ]_vars

\* C12 witness: an unknown field was rejected after a recognized one was set
C12_Witness ==
  /\ op = "update_profile"
  /\ arg.field = "not_a_field"
  /\ ret = FALSE
  /\ profile.audience = "executives"
  /\ profile.preferred_chart_types = <<"bar", "line">>

\* ------------------------------------------------------------------------
\* SpecStorage: save_state and load_state on a states directory, with notes
\* added and a transcript trimmed in between
\* ------------------------------------------------------------------------
MaxStorageNotes == 1   \* most notes the in-memory state gains between loads

\* User ids: one with spaces, slashes and dots, one that sanitizes to the same
\* file name, one with '-' and '_'
StorageUserIds == {"demo user/../x", "demouserx", "u-1_b"}

\* Snapshots written by something other than save_state of this version: one
\* whose profile lacks fields, one without a profile
PartialProfileSnapshot(uid) ==
  [user_id |-> uid,
   profile |-> [color_scheme |-> "professional"],
   global_memory |-> [notes |-> <<>>],
   session_memory |-> [notes |-> <<>>],
   visualization_history |-> <<>>,
   inject_session_memories_next_turn |-> FALSE]
NoProfileSnapshot(uid) ==
  [user_id |-> uid, global_memory |-> [notes |-> <<>>]]

\* The directories a run starts with: empty, or one file that is corrupt or
\* holds one of those snapshots
InitialDisks ==
  {NoFiles}
  \cup { WriteFile(NoFiles, get_state_file_path("demouserx"), content) :
           content \in { CorruptFile,
                         JsonFile(PartialProfileSnapshot("demouserx")),
                         JsonFile(NoProfileSnapshot("demouserx")) } }

InitStorage ==
  /\ \E uid \in StorageUserIds : StateIs(create_default(uid))
  /\ clock = 1
  /\ conversation_history = <<>>
  /\ max_turns = 0
  /\ files \in InitialDisks
  /\ op = "init" /\ arg = <<>> /\ ret = <<>>
  /\ appended = <<>>
  /\ trimmedSinceReinject = FALSE
  /\ second_orchestrator = NoOrchestrator

\* What load_state finds under the name of the user
Found(uid, fs) ==
  IF get_state_file_path(uid) \notin DOMAIN fs THEN "absent"
  ELSE fs[get_state_file_path(uid)].kind

SaveState ==
  /\ \E r \in {save_state(State, files)} :
       /\ files' = r.files
       /\ op' = "save_state"
       /\ arg' = <<>>
       /\ ret' = r.ok
  /\ UNCHANGED <<state_vars, clock, conversation_history, max_turns, appended,
                 trimmedSinceReinject, second_orchestrator>>

\* load_state; the caller takes the returned state as its state
LoadState ==
  /\ \E uid \in StorageUserIds, create_if_missing \in BOOLEAN :
       \E r \in {load_state(uid, files, create_if_missing)} :
          /\ files' = r.files
          /\ IF r.result.returned = "state"
             THEN SetState(r.result.state)
             ELSE UNCHANGED state_vars
          /\ op' = "load_state"
          /\ arg' = [user_id |-> uid, create_if_missing |-> create_if_missing,
                     found |-> Found(uid, files)]
          /\ ret' = r.result
  /\ UNCHANGED <<clock, conversation_history, max_turns, appended, trimmedSinceReinject, second_orchestrator>>

\* add_memory_note to session memory
StorageAddNote ==
  /\ NoteCount < MaxStorageNotes
  /\ \E st \in {add_memory_note(State, "User likes bar charts", <<"bar">>, TRUE)} :
       /\ SetState(st)
       /\ op' = "add_memory_note"
       /\ arg' = [text |-> "User likes bar charts", keywords |-> <<"bar">>,
                  to_session |-> TRUE]
       /\ ret' = new_note("User likes bar charts", <<"bar">>)
  /\ UNCHANGED <<clock, conversation_history, max_turns, files, appended,
                 trimmedSinceReinject, second_orchestrator>>

\* trim_conversation that discards and preserves context
StorageTrim ==
  /\ NoteCount < MaxStorageNotes
  /\ DoTrim(WithContext, 1, TRUE)
  /\ UNCHANGED files

NextStorage ==
  \/ SaveState
  \/ LoadState
  \/ StorageAddNote
  \/ StorageTrim

SpecStorage == InitStorage /\ [][NextStorage]_vars

\* A file name made of alphanumerics, '_' and '-' before the extension
SafeFileName(name) ==
  /\ Len(name) >= 5
  /\ SubSeq(name, Len(name) - 4, Len(name)) = ".json"
  /\ \A i \in 1..(Len(name) - 5) :
       IsAlnum(Char(name, i)) \/ Char(name, i) \in {"_", "-"}

\* C13: save_state(state) followed at once by load_state(state.user_id)
\* returns a state equal to the saved one in user_id, profile, global memory,
\* session memory, history and flag; and every file save_state writes has a
\* name made only of alphanumerics, '_' and '-'.
C13_SaveLoadRoundTrip ==
  /\ [](\A name \in DOMAIN files : SafeFileName(name))
  /\ [][ ( /\ op = "save_state"
           /\ op' = "load_state"
           /\ arg'.user_id = user_id )
         => ( /\ ret'.returned = "state"
              /\ ret'.state.user_id = user_id
              /\ ret'.state.profile = profile
              /\ ret'.state.global_memory = global_memory
              /\ ret'.state.session_memory = session_memory
              /\ ret'.state.visualization_history = visualization_history
              /\ ret'.state.inject_session_memories_next_turn
                   = inject_session_memories_next_turn
              /\ UNCHANGED state_vars ) ]_vars

\* C13 witness: a state with a session note and the flag set, of the user
\* whose id has spaces, slashes and dots, came back from its file
C13_Witness ==
  /\ op = "load_state"
  /\ arg.user_id = "demo user/../x"
  /\ arg.found = "json"
  /\ user_id = "demo user/../x"
  /\ session_memory.notes # <<>>
  /\ inject_session_memories_next_turn
  /\ DOMAIN files = {"demouserx.json"}

\* C14: when no snapshot exists for user_id, load_state with
\* create_if_missing=True returns a default state for that user and a
\* snapshot of the user exists afterwards; with create_if_missing=False it
\* returns None and creates no snapshot.
C14_LoadMissing ==
  [][ ( /\ op' = "load_state"
        /\ Found(arg'.user_id, files) = "absent" )
      => IF arg'.create_if_missing
         THEN /\ ret'.returned = "state"
              /\ ret'.state.user_id = arg'.user_id
              /\ ret'.state.profile = DefaultProfile
              /\ ret'.state.global_memory.notes = <<>>
              /\ ret'.state.session_memory.notes = <<>>
              /\ ret'.state.visualization_history = <<>>
              /\ ~ret'.state.inject_session_memories_next_turn
              /\ Found(arg'.user_id, files') = "json"
         ELSE /\ ret'.returned = "None"
              /\ files' = files ]_vars

\* C14 witness: a missing user was loaded with create_if_missing=True and
\* its snapshot is now in the directory
C14_Witness ==
  /\ op = "load_state"
  /\ arg.found = "absent"
  /\ arg.create_if_missing
  /\ arg.user_id = "u-1_b"
  /\ ret.returned = "state"
  /\ "u-1_b.json" \in DOMAIN files

\* C15: load_state on a snapshot that exists but is corrupt returns a fresh
\* default state of that user in every lookup mode, and what the caller
\* receives differs from what a normal load of a default snapshot returns.
C15_CorruptRecoveredWithSignal ==
  (op = "load_state" /\ arg.found = "corrupt") =>
    /\ ret.returned = "state"
    /\ ret.state = create_default(arg.user_id)
    /\ ret # Returned(from_dict(to_dict(create_default(arg.user_id))))

\* C16: the state load_state returns has all five recognized profile
\* fields, the ones missing from the snapshot at their defaults, so
\* update_profile on a recognized field succeeds on every loaded state.
C16_LoadedProfileComplete ==
  (op = "load_state" /\ ret.returned = "state") =>
    /\ DOMAIN ret.state.profile = RecognizedFields
    /\ \A field \in RecognizedFields :
         update_profile(ret.state, field, DefaultProfile[field]).ok

\* C17: a state obtained by load_state has empty session notes, even when
\* the snapshot was saved while session memory held notes.
C17_SessionNotLoaded ==
  (op = "load_state" /\ ret.returned = "state") =>
    ret.state.session_memory.notes = <<>>

\* ------------------------------------------------------------------------
\* SpecInject: prompts built with every combination of the include_* options
\* from states that hold notes and history
\* ------------------------------------------------------------------------
MaxInjectHistory == 6

\* The base prompts a caller passes: a system prompt and the empty prompt
BasePrompts == {"You are a visualization expert.", ""}

InjectMemoriesIntoPromptWith ==
  /\ \E base_prompt \in BasePrompts :
       \E include_frontmatter \in BOOLEAN, include_global \in BOOLEAN :
         \E include_session \in BOOLEAN, include_history \in BOOLEAN :
            /\ op' = "inject_memories_into_prompt"
            /\ arg' = [base_prompt |-> base_prompt,
                       include_frontmatter |-> include_frontmatter,
                       include_global |-> include_global,
                       include_session |-> include_session,
                       include_history |-> include_history]
            /\ ret' = inject_memories_into_prompt(base_prompt, State, include_frontmatter,
                                                   include_global, include_session,
                                                   include_history)
  /\ UNCHANGED <<state_vars, clock, conversation_history, max_turns, files, appended,
                 trimmedSinceReinject, second_orchestrator>>

\* add_visualization_to_history, a few more times than the history section shows
InjectAddVisualization ==
  /\ Len(appended) < MaxInjectHistory
  /\ AddVisualizationToHistory

NextInject ==
  \/ AddMemoryNote
  \/ InjectAddVisualization
  \/ InjectMemoriesIntoPromptWith

SpecInject == Init /\ [][NextInject]_vars

\* s.find(sub) counted from 1; 0 when sub does not occur in s
IndexOf(s, sub) ==
  LET hits == { i \in 1..(Len(s) - Len(sub) + 1) : SubSeq(s, i, i + Len(sub) - 1) = sub }
  IN IF hits = {} THEN 0 ELSE CHOOSE i \in hits : \A j \in hits : i <= j

\* The text each section of the memory context opens with
SectionMarkers ==
  <<"---\nuser_profile:", "## Long-Term Preferences", "## Current Session Context",
    "## Recent Visualizations", "## Using Memories">>

\* Whether the call whose options are a includes each section, in the fixed order
SectionsIncluded(a) ==
  LET front == a.include_frontmatter
      glob == a.include_global /\ global_memory.notes # <<>>
      sess == a.include_session /\ session_memory.notes # <<>>
      hist == a.include_history /\ visualization_history # <<>>
  IN <<front, glob, sess, hist, front \/ glob \/ sess \/ hist>>

\* C18: for every state and every combination of the include_* options the
\* output of inject_memories_into_prompt holds each included section and no
\* other, the sections present stand in the order profile frontmatter,
\* Long-Term Preferences, Current Session Context, recent history, usage
\* guidance, and the base prompt is the final part, after all of them.
C18_SectionsInOrderBasePromptLast ==
  op = "inject_memories_into_prompt" =>
    LET base_start == Len(ret) - Len(arg.base_prompt) + 1
        included == SectionsIncluded(arg)
        at == [k \in 1..Len(SectionMarkers) |-> IndexOf(ret, SectionMarkers[k])]
    IN /\ base_start >= 3
       /\ SubSeq(ret, base_start, Len(ret)) = arg.base_prompt
       /\ SubSeq(ret, base_start - 2, base_start - 1) = "\n\n"
       /\ \A k \in 1..Len(SectionMarkers) :
            /\ included[k] <=> at[k] > 0
            /\ included[k] => at[k] + Len(SectionMarkers[k]) <= base_start - 2
       /\ \A j \in 1..Len(SectionMarkers), k \in 1..Len(SectionMarkers) :
            (j < k /\ included[j] /\ included[k]) => at[j] < at[k]

\* C18 witness: a prompt built with every option on from a state that has
\* global notes, session notes and more history than the section shows
C18_Witness ==
  /\ op = "inject_memories_into_prompt"
  /\ arg.base_prompt = "You are a visualization expert."
  /\ SectionsIncluded(arg) = <<TRUE, TRUE, TRUE, TRUE, TRUE>>
  /\ Len(visualization_history) > HISTORY_LIMIT
  /\ \A k \in 1..Len(SectionMarkers) : Contains(ret, SectionMarkers[k])

\* ------------------------------------------------------------------------
\* create_reinjection_message
\* ------------------------------------------------------------------------
\* SpecReinject: notes are added, trims preserve context and set the flag, and
\* reinjection messages are rendered
NextReinject ==
  \/ AddMemoryNote
  \/ TrimConversation
  \/ CreateReinjectionMessage

SpecReinject == Init /\ [][NextReinject]_vars

REINJECTED_HEADING == "## Session Context (Reinjected)"

\* One line per note, each on a line of its own, in the order of the list
RECURSIVE NoteLines(_)
NoteLines(notes) ==
  IF notes = <<>> THEN ""
  ELSE "\n- " \o Head(notes).text \o " (Updated: " \o Head(notes).last_update_date \o ")"
       \o NoteLines(Tail(notes))

\* The part of a reinjection message between its opening and closing sentences
ReinjectedPart(message) ==
  LET opening == IndexOf(message, "session:\n\n") + Len("session:\n\n")
      closing == IndexOf(message, "\n\nContinue the conversation")
  IN SubSeq(message, opening, closing - 1)

\* The only state change of the step is the flag, which is false after it
OnlyFlagCleared ==
  /\ inject_session_memories_next_turn' = FALSE
  /\ session_memory' = session_memory
  /\ global_memory' = global_memory
  /\ profile' = profile
  /\ visualization_history' = visualization_history
  /\ user_id' = user_id

\* C19 as stated: create_reinjection_message(state) renders exactly the current
\* session notes, in storage order, under the "Session Context (Reinjected)"
\* heading, and its only state change is setting
\* inject_session_memories_next_turn to false.
C19_ReinjectionUnderHeading ==
  [][op' = "create_reinjection_message" =>
       /\ ReinjectedPart(ret') = REINJECTED_HEADING \o "\n" \o NoteLines(session_memory.notes)
       /\ OnlyFlagCleared]_vars

\* C19 amended: when the state holds session notes, create_reinjection_message
\* renders exactly those notes, in storage order, under the "Session Context
\* (Reinjected)" heading; when it holds none, the message has neither the
\* heading nor any note line. In both cases its only state change is setting
\* inject_session_memories_next_turn to false: session notes, global notes,
\* profile and history are unchanged.
C19_ReinjectionFrame ==
  [][op' = "create_reinjection_message" =>
       /\ IF session_memory.notes # <<>>
          THEN ReinjectedPart(ret') =
                 REINJECTED_HEADING \o "\n" \o NoteLines(session_memory.notes)
          ELSE ReinjectedPart(ret') = "" /\ ~Contains(ret', REINJECTED_HEADING)
       /\ ~Contains(ret', "## Long-Term Preferences")
       /\ OnlyFlagCleared]_vars

\* C19 witness: a reinjection message was rendered from two session notes, one
\* of them the context a trim preserved, and the flag is false
C19_Witness ==
  /\ op = "create_reinjection_message"
  /\ Len(session_memory.notes) = 2
  /\ \E i \in 1..2 : IsContextNote(session_memory.notes[i])
  /\ \E i \in 1..2 : ~IsContextNote(session_memory.notes[i])
  /\ Contains(ret, REINJECTED_HEADING)
  /\ ~inject_session_memories_next_turn

\* ------------------------------------------------------------------------
\* workflow_orchestrator_with_memory.py: chat() with memory enabled
\* ------------------------------------------------------------------------
DEFAULT_MAX_TURNS == 10

MaxIrregular == 1
MaxChatVisualizations == 1

\* The element of a one-element set: the value of an expression, computed once
Only(S) == CHOOSE x \in S : TRUE

\* An add_message that appends and never trims
add_message_no_trim(mt, history, st, role, content) ==
  [history |-> Append(history, Message(role, content)), state |-> st]

\* ConversationManager(state, max_turns = mt, auto_trim = True).add_message:
\* the transcript it returns and the state it leaves
ConversationManager_add_message(mt, history, st, role, content) ==
  Only({ IF should_trim_conversation(longer, mt)
         THEN Only({ [history |-> r.kept, state |-> r.state] :
                     r \in {trim_conversation(longer, st, mt, TRUE)} })
         ELSE [history |-> longer, state |-> st] :
         longer \in {Append(history, Message(role, content))} })

\* add_message of the manager the orchestrator builds, with the default max_turns
add_message(history, st, role, content) ==
  ConversationManager_add_message(DEFAULT_MAX_TURNS, history, st, role, content)

\* list.insert(-1, x): x goes before the last element
InsertBeforeLast(lst, x) ==
  IF lst = <<>> THEN <<x>>
  ELSE SubSeq(lst, 1, Len(lst) - 1) \o <<x, lst[Len(lst)]>>

\* The response chat() builds from what the communication agent answered and
\* what the visualization pipeline returned
chat_response(agent) ==
  IF agent.action \in {"conversation", "needs_data", "clarify"}
  THEN [type |-> agent.action, message |-> agent.message]
  ELSE IF agent.action = "ready"
  THEN [type |-> "visualization", message |-> agent.message]
  ELSE [type |-> "error", message |-> "Unknown action: " \o agent.action]

\* The try block of chat() from the call of the communication agent on, entered
\* with the state st and the transcript history
chat_after_reinjection(st, history, fs, agent) ==
  IF agent.raises
  \* the except branch: the response is returned, nothing is saved
  THEN [response |-> [type |-> "error", message |-> "Error in workflow: " \o agent.message],
        state |-> st, conversation_history |-> history, files |-> fs]
  ELSE Only({ [response |-> chat_response(agent),
               state |-> replied.state,
               conversation_history |-> replied.history,
               files |-> save_state(replied.state, fs).files] :
              replied \in
                {add_message(history,
                   IF agent.action = "ready" /\ agent.code # ""
                   THEN [st EXCEPT !.visualization_history =
                           add_visualization_to_history(@,
                             history_entry(agent.chart_type, agent.story_summary,
                                           Prefix(agent.code, 200), TRUE))]
                   ELSE st,
                   "assistant", chat_response(agent).message)} })

\* A chat() that never reinjects
chat_without_reinjection(st, history, fs, user_message, agent) ==
  Only({ chat_after_reinjection(added.state, added.history, fs, agent) :
         added \in {add_message(history, st, "user", user_message)} })

\* WorkflowOrchestratorWithMemory.chat(user_message): the response, the state,
\* the transcript and the directory of snapshots it leaves. agent is what the
\* communication agent and the pipeline do on this turn: raise, or answer.
chat(st, history, fs, user_message, agent) ==
  Only({ IF added.state.inject_session_memories_next_turn
         THEN Only({ chat_after_reinjection(
                       reinjection.state,
                       InsertBeforeLast(added.history,
                                        Message("system", reinjection.message)),
                       fs, agent) :
                     reinjection \in {create_reinjection_message(added.state)} })
         ELSE chat_after_reinjection(added.state, added.history, fs, agent) :
         added \in {add_message(history, st, "user", user_message)} })

\* What the agents do on a turn
Agent(raises, action, message, code) ==
  [raises |-> raises, action |-> action, message |-> message,
   story_summary |-> "sales by region", chart_type |-> "bar", code |-> code]

AgentOutcomes ==
  { Agent(FALSE, action, "Done.", "") : action \in {"conversation", "needs_data", "clarify"} }
  \cup { Agent(FALSE, "ready", "Done.", "fig = px.bar(df)"),
         Agent(FALSE, "retry", "", ""),
         Agent(TRUE, "", "Connection error.", "") }

\* The turns of a transcript that went other than a plain answer: the user
\* messages left without an answer and the answers reporting an unknown action
IrregularTurns(history) ==
  Cardinality({ i \in 1..Len(history) : history[i].role = "user" })
  - Cardinality({ i \in 1..Len(history) : history[i].role = "assistant"
                                           /\ Prefix(history[i].content, 7) # "Unknown" })

\* __init__ with enable_memory: the state of a new user is created and saved
InitChat ==
  /\ StateIs(create_default("demo"))
  /\ files = save_state(create_default("demo"), NoFiles).files
  /\ clock = 1
  /\ conversation_history = <<>>
  /\ max_turns = DEFAULT_MAX_TURNS
  /\ op = "init" /\ arg = <<>> /\ ret = <<>>
  /\ appended = <<>>
  /\ trimmedSinceReinject = FALSE
  /\ second_orchestrator = NoOrchestrator

Chat ==
  /\ NoteCount < MaxNotes
  /\ \E agent \in AgentOutcomes :
       /\ (agent.raises \/ agent.action = "retry")
            => IrregularTurns(conversation_history) < MaxIrregular
       /\ agent.action = "ready" => Len(visualization_history) < MaxChatVisualizations
       /\ \E r \in {chat(State, conversation_history, files,
                         "I want a bar chart of my data", agent)} :
            /\ SetState(r.state)
            /\ conversation_history' = r.conversation_history
            /\ files' = r.files
            /\ op' = "chat"
            /\ arg' = agent
            /\ ret' = r.response
  /\ UNCHANGED <<clock, max_turns, appended, trimmedSinceReinject, second_orchestrator>>

NextChat == Chat

SpecChat == InitChat /\ [][NextChat]_vars

\* C20: with memory enabled, whenever chat() returns, whatever the response
\* type (conversation, needs_data, clarify, visualization or error), the
\* persisted snapshot of the user equals the in-memory state, including
\* session notes and the reinjection flag changed by a trim during the turn.
C20_PersistedAfterChat ==
  op = "chat" =>
    load_state(user_id, files, FALSE).result = Returned(State)

\* ------------------------------------------------------------------------
\* SpecFrame: the operations that read or write the memories, in any order
\* ------------------------------------------------------------------------
\* update_profile with a recognized and with an unknown field
FrameUpdateProfile ==
  /\ \E field \in {"audience", "not_a_field"} :
       \E r \in {update_profile(State, field, "executives")} :
          /\ SetState(r.state)
          /\ op' = "update_profile"
          /\ arg' = [field |-> field, value |-> "executives"]
          /\ ret' = r.ok
  /\ UNCHANGED <<clock, conversation_history, max_turns, files, appended,
                 trimmedSinceReinject, second_orchestrator>>

\* The operations that add session notes run while session memory has room
SessionHasRoom == Len(session_memory.notes) < MaxStorageNotes

\* add_memory_note of one text, to session or to global memory
FrameAddNote ==
  /\ NoteCount < MaxNotes
  /\ \E to_session \in BOOLEAN :
       \E st \in {add_memory_note(State, "User likes bar charts", <<"bar">>, to_session)} :
         /\ SetState(st)
         /\ op' = "add_memory_note"
         /\ arg' = [text |-> "User likes bar charts", keywords |-> <<"bar">>,
                    to_session |-> to_session]
         /\ ret' = new_note("User likes bar charts", <<"bar">>)
  /\ UNCHANGED <<clock, conversation_history, max_turns, files, appended,
                 trimmedSinceReinject, second_orchestrator>>

NextFrame ==
  \/ FrameAddNote
  \/ (SessionHasRoom /\ NoteCount < MaxNotes /\ DoTrim(WithContext, 1, TRUE))
  \/ (SessionHasRoom /\ SmartTrimConversation)
  \/ FrameUpdateProfile
  \/ (Len(appended) < MaxChatVisualizations /\ AddVisualizationToHistory)
  \/ InjectMemoriesIntoPrompt
  \/ CreateReinjectionMessage
  \/ ConsolidateSessionMemories

SpecFrame == Init /\ [][NextFrame]_vars

\* C21: consolidate_session_memories is the only operation that moves session
\* notes into global memory: add_memory_note with to_session=True (the call
\* the save_memory_note tool makes), trim_conversation,
\* smart_trim_conversation, update_profile, add_visualization_to_history,
\* inject_memories_into_prompt and create_reinjection_message leave the
\* global notes unchanged, and a step that changes them is a consolidation or
\* an add_memory_note with to_session=False.
C21_OnlyConsolidationWritesGlobal ==
  [][/\ (\/ op' \in {"trim_conversation", "smart_trim_conversation", "update_profile",
                     "add_visualization_to_history", "inject_memories_into_prompt",
                     "create_reinjection_message"}
         \/ (op' = "add_memory_note" /\ arg'.to_session))
        => global_memory'.notes = global_memory.notes
     /\ global_memory'.notes # global_memory.notes
        => \/ op' = "consolidate_session_memories"
           \/ (op' = "add_memory_note" /\ ~arg'.to_session)]_vars

\* C21 witness: a trim preserved context in session memory next to a session
\* note and a global note
C21_Witness ==
  /\ op = "trim_conversation"
  /\ ret.removed > 0
  /\ Len(global_memory.notes) = 1
  /\ Len(session_memory.notes) = 1
  /\ IsContextNote(session_memory.notes[1])

\* ------------------------------------------------------------------------
\* The minimum number of turns to keep
\* ------------------------------------------------------------------------
MIN_TURNS_TO_KEEP == 3

\* C22: for every transcript and every max_turns, including values below 3,
\* the transcript kept by trim_conversation contains at least
\* min(3, number of user messages in the input) user messages.
C22_MinimumTurnsKept ==
  op = "trim_conversation" =>
    UserCount(ret.kept) >= (IF UserCount(arg.history) < MIN_TURNS_TO_KEEP
                            THEN UserCount(arg.history) ELSE MIN_TURNS_TO_KEEP)

\* ------------------------------------------------------------------------
\* SpecManager: a ConversationManager with auto_trim, its max_turns chosen at
\* construction, given message after message from an empty history
\* ------------------------------------------------------------------------
InitManager ==
  /\ StateIs(create_default("demo"))
  /\ clock = 1
  /\ conversation_history = <<>>
  /\ max_turns \in 1..MaxTurnsArg
  /\ files = NoFiles
  /\ op = "init" /\ arg = <<>> /\ ret = <<>>
  /\ appended = <<>>
  /\ trimmedSinceReinject = FALSE
  /\ second_orchestrator = NoOrchestrator

\* add_message on the history the previous call returned
AddMessage ==
  /\ Len(conversation_history) <= MaxLen
  /\ NoteCount < MaxNotes
  /\ \E role \in {"user", "assistant", "system"} :
       \E r \in {ConversationManager_add_message(max_turns, conversation_history, State,
                                                 role, "I want a bar chart of my data")} :
          /\ SetState(r.state)
          /\ conversation_history' = r.history
          /\ op' = "add_message"
          /\ arg' = [history |-> conversation_history, role |-> role,
                     content |-> "I want a bar chart of my data"]
          /\ ret' = r.history
  /\ UNCHANGED <<clock, max_turns, files, appended, trimmedSinceReinject, second_orchestrator>>

NextManager == AddMessage

SpecManager == InitManager /\ [][NextManager]_vars

RECURSIVE ByDateThenPosition(_, _)
ByDateThenPosition(inputs, cluster) ==
  IF cluster = {} THEN <<>>
  ELSE LET first == CHOOSE i \in cluster :
                      \A j \in cluster \ {i} :
                         \/ StrLess(inputs[i].last_update_date, inputs[j].last_update_date)
                         \/ (inputs[i].last_update_date = inputs[j].last_update_date /\ i < j)
       IN <<first>> \o ByDateThenPosition(inputs, cluster \ {first})

\* The keywords of the notes at the positions, in first-seen order
RECURSIVE KeywordsInOrder(_, _)
KeywordsInOrder(inputs, positions) ==
  IF positions = <<>> THEN <<>>
  ELSE inputs[Head(positions)].keywords \o KeywordsInOrder(inputs, Tail(positions))

\* note is what the cluster of input positions is to become: the note itself
\* for a cluster of one; for a larger cluster the latest date, the text of the
\* member with that date that is last in the input, and the first five
\* distinct keywords
MergedAsSpecified(inputs, cluster, note) ==
  LET order == ByDateThenPosition(inputs, cluster)
      latest == inputs[order[Len(order)]]
  IN IF Cardinality(cluster) = 1 THEN note = latest
     ELSE /\ note.last_update_date = latest.last_update_date
          /\ \A i \in cluster : ~StrLess(note.last_update_date, inputs[i].last_update_date)
          /\ note.text = latest.text
          /\ note.keywords = Take(DictFromKeys(KeywordsInOrder(inputs, order)), 5)

\* C24: the notes a consolidation leaves are the merges of clusters that
\* partition the global and session notes it was given: each note produced
\* from a cluster of two or more notes has the maximum date of the cluster,
\* the text of a member with that date (on a date tie the member latest in
\* input order, so a session note wins over a global note of the same date),
\* and the union of the members' keywords in first-seen order over the
\* date-sorted cluster, capped at 5.
C24_MergedNoteOfCluster ==
  [][op' = "consolidate_session_memories" =>
       LET inputs == global_memory.notes \o session_memory.notes
           outputs == global_memory'.notes
       IN \E cluster_of \in [1..Len(inputs) -> 1..Len(outputs)] :
            \A k \in 1..Len(outputs) :
               LET cluster == { i \in 1..Len(inputs) : cluster_of[i] = k }
               IN cluster # {} /\ MergedAsSpecified(inputs, cluster, outputs[k])]_vars

\* C24 witness: a consolidation merged a cluster and left another note beside it
C24_Witness ==
  /\ op = "consolidate_session_memories"
  /\ ret.merged_count >= 1
  /\ ret.after_count >= 2
  /\ ret.session_notes_added >= 1

\* ------------------------------------------------------------------------
\* SpecQuality: assess_memory_quality on notes over a few texts and keywords
\* ------------------------------------------------------------------------
QualityTexts == {"bar", "User prefers bar charts", "User prefers Line plots in blue"}
QualityKeywords == {"bar", "Line", "finance"}
QualityNotes ==
  { MemoryNote(text, Days[1], keywords) :
      text \in QualityTexts, keywords \in SeqsUpTo(QualityKeywords, MaxLen) }

AssessMemoryQuality ==
  /\ \E note \in QualityNotes :
       /\ op' = "assess_memory_quality"
       /\ arg' = note
       /\ ret' = assess_memory_quality(note)
  /\ UNCHANGED <<state_vars, clock, conversation_history, max_turns, files, appended,
                 trimmedSinceReinject, second_orchestrator>>

NextQuality == AssessMemoryQuality

SpecQuality == Init /\ [][NextQuality]_vars

\* The number of keywords of the note that occur literally in its text
OccurringKeywords(note) ==
  Cardinality({ i \in 1..Len(note.keywords) :
                  Contains(Lower(note.text), Lower(note.keywords[i])) })

\* C25: for every note that has at least one keyword, assess_memory_quality
\* subtracts 0.2 from the score and records the keyword-mismatch issue
\* whenever fewer than 50% of its keywords occur literally in the note text,
\* including the case where none of them occurs.
C25_MismatchPenalized ==
  (/\ op = "assess_memory_quality"
   /\ arg.keywords # <<>>
   /\ 2 * OccurringKeywords(arg) < Len(arg.keywords))
    => /\ \E i \in 1..Len(ret.issues) : ret.issues[i] = "Keywords not well matched to text"
       /\ ret.score <= 8

\* ------------------------------------------------------------------------
\* SpecCleanup: cleanup_old_memories on global notes of today, of yesterday
\* and of a day years ago
\* ------------------------------------------------------------------------
YEARS_AGO == "2020-01-01"

CleanupNotes ==
  { MemoryNote("User prefers bar charts", date, <<"bar">>) :
      date \in {YEARS_AGO, Days[1], Days[2]} }

InitCleanup ==
  /\ user_id = "demo"
  /\ profile = DefaultProfile
  /\ global_memory \in { [notes |-> g] : g \in SeqsUpTo(CleanupNotes, MaxConsolidate) }
  /\ session_memory = [notes |-> <<>>]
  /\ visualization_history = <<>>
  /\ inject_session_memories_next_turn = FALSE
  /\ clock = Len(Days)
  /\ conversation_history = <<>>
  /\ max_turns = 0
  /\ files = NoFiles
  /\ op = "init" /\ arg = <<>> /\ ret = <<>>
  /\ appended = <<>>
  /\ trimmedSinceReinject = FALSE
  /\ second_orchestrator = NoOrchestrator

CleanupOldMemories ==
  /\ \E max_age_days \in {0, MAX_AGE_DAYS}, max_memories \in {1, MAX_COUNT} :
       \E r \in {cleanup_old_memories(State, max_age_days, max_memories)} :
          /\ SetState(r.state)
          /\ op' = "cleanup_old_memories"
          /\ arg' = [max_age_days |-> max_age_days, max_memories |-> max_memories]
          /\ ret' = r.stats
  /\ UNCHANGED <<clock, conversation_history, max_turns, files, appended,
                 trimmedSinceReinject, second_orchestrator>>

NextCleanup == CleanupOldMemories

SpecCleanup == InitCleanup /\ [][NextCleanup]_vars

\* Whether a day-precision date lies more than max_age_days days before today:
\* the days of the clock are consecutive, YEARS_AGO is more than five years back
OlderThan(date, max_age_days) ==
  IF date = YEARS_AGO THEN max_age_days < 5 * 365
  ELSE (clock - (CHOOSE d \in 1..Len(Days) : Days[d] = date)) > max_age_days

\* C26: after cleanup_old_memories(state, max_age_days, max_memories) global
\* memory contains no note older than max_age_days among the notes with a
\* day-precision ISO date, and at most max_memories notes.
C26_NoOldNoteAfterCleanup ==
  op = "cleanup_old_memories" =>
    /\ \A i \in 1..Len(global_memory.notes) :
         ~OlderThan(global_memory.notes[i].last_update_date, arg.max_age_days)
    /\ Len(global_memory.notes) <= arg.max_memories

\* ------------------------------------------------------------------------
\* Reinjection in chat()
\* ------------------------------------------------------------------------
\* The position of the last user message of a transcript, 0 when it has none
LastUserIndex(history) ==
  IF UserCount(history) = 0 THEN 0
  ELSE user_indices(history)[UserCount(history)]

\* C27: in chat(), a turn whose user message triggers a trim (the transcript
\* would hold more than 10 user messages) inserts exactly one system
\* reinjection message, immediately before that latest user message, and a
\* turn without a trim inserts none; inject_session_memories_next_turn is
\* false when chat() returns. So over any sequence of chat() calls the
\* reinjection messages inserted are as many as the turns that trimmed.
C27_OneReinjectionPerTrim ==
  [][op' = "chat" =>
       LET trimmed == UserCount(conversation_history) + 1 > DEFAULT_MAX_TURNS
           h == conversation_history'
           at == LastUserIndex(h)
           inserted == at > 1 /\ h[at - 1].role = "system"
       IN /\ at > 0
          /\ h[at].content = "I want a bar chart of my data"
          /\ trimmed <=> inserted
          /\ inserted =>
               /\ Prefix(h[at - 1].content, 22) = "# Context Reinjection\n"
               /\ Contains(h[at - 1].content, session_memory'.notes[Len(session_memory'.notes)].text)
               /\ (at > 2 => h[at - 2].role # "system")
          /\ trimmed => Len(session_memory'.notes) = Len(session_memory.notes) + 1
          /\ ~inject_session_memories_next_turn']_vars

\* C27 witness: a second turn trimmed and reinjected, and the agent answered
C27_Witness ==
  /\ op = "chat"
  /\ ret.type = "visualization"
  /\ Len(session_memory.notes) = 2
  /\ Len(conversation_history) > 3
  /\ conversation_history[Len(conversation_history) - 2].role = "system"
  /\ Len(SelectSeq(conversation_history, LAMBDA m : m.role = "system")) = 2

\* ------------------------------------------------------------------------
\* smart_trim_conversation on the caller's own transcript, over every bounded
\* transcript, target_tokens and preserve_recent
\* ------------------------------------------------------------------------
\* The token budgets a smart trim is given
TargetTokens == {0, 3, 6, 7}

SmartTrimOwnConversation ==
  /\ NoteCount < MaxNotes
  /\ \E target_tokens \in TargetTokens, preserve_recent \in 0..MaxTurnsArg :
       \E r \in {smart_trim_conversation(conversation_history, State,
                                         target_tokens, preserve_recent)} :
          /\ SetState(r.state)
          /\ conversation_history' = r.kept
          /\ op' = "smart_trim_conversation"
          /\ arg' = [history |-> conversation_history,
                     target_tokens |-> target_tokens,
                     preserve_recent |-> preserve_recent]
          /\ ret' = r.kept
          /\ trimmedSinceReinject' =
               (trimmedSinceReinject \/ Len(r.kept) < Len(conversation_history))
  /\ UNCHANGED <<clock, max_turns, files, appended, second_orchestrator>>

NextSmartTrim == SmartTrimOwnConversation

SpecSmartTrim == InitTrim /\ [][NextSmartTrim]_vars

\* conversation_history[preserve_from:]: the part smart_trim_conversation
\* always keeps
RecentPart(history, preserve_recent) ==
  SubSeq(history, IndexFromEnd(user_indices(history), preserve_recent), Len(history))

\* s is the last Len(s) elements of t
IsSuffixOf(s, t) ==
  /\ Len(s) <= Len(t)
  /\ s = SubSeq(t, Len(t) - Len(s) + 1, Len(t))

\* C28: for a transcript with more than preserve_recent user messages whose
\* preserved recent part alone is estimated at no more than target_tokens,
\* the transcript smart_trim_conversation returns is a contiguous suffix of
\* the input that contains the preserved recent part, and its estimated token
\* count (total content characters // 4) is at most target_tokens.
C28_SmartTrimWithinBudget ==
  (/\ op = "smart_trim_conversation"
   /\ UserCount(arg.history) > arg.preserve_recent
   /\ estimate_conversation_tokens(RecentPart(arg.history, arg.preserve_recent))
        <= arg.target_tokens)
  => /\ IsSuffixOf(ret, arg.history)
     /\ IsSuffixOf(RecentPart(arg.history, arg.preserve_recent), ret)
     /\ estimate_conversation_tokens(ret) <= arg.target_tokens

\* ------------------------------------------------------------------------
\* state_storage.py: saves, loads and deletions for several user ids over one
\* states directory
\* ------------------------------------------------------------------------
\* state_exists(user_id)
state_exists(uid, fs) == get_state_file_path(uid) \in DOMAIN fs

\* The directory without one file
RemoveFile(fs, name) == [n \in DOMAIN fs \ {name} |-> fs[n]]

\* delete_state(user_id): the boolean it returns and the directory it leaves
delete_state(uid, fs) ==
  IF get_state_file_path(uid) \in DOMAIN fs
  THEN [ok |-> TRUE, files |-> RemoveFile(fs, get_state_file_path(uid))]
  ELSE [ok |-> FALSE, files |-> fs]

DeleteState ==
  /\ \E uid \in StorageUserIds :
       \E r \in {delete_state(uid, files)} :
          /\ files' = r.files
          /\ op' = "delete_state"
          /\ arg' = [user_id |-> uid]
          /\ ret' = r.ok
  /\ UNCHANGED <<state_vars, clock, conversation_history, max_turns, appended,
                 trimmedSinceReinject, second_orchestrator>>

NextIsolation ==
  \/ SaveState
  \/ LoadState
  \/ DeleteState
  \/ StorageAddNote

SpecIsolation == InitStorage /\ [][NextIsolation]_vars

\* The user a storage operation that has just run was called for
OperationUser == IF op = "save_state" THEN user_id ELSE arg.user_id

\* C29: persisted state is isolated per user: a save_state, load_state or
\* delete_state for a user v leaves, for every other user id u, what
\* load_state(u) returns and whether a state exists for u as they were.
C29_PerUserIsolation ==
  [][ op' \in {"save_state", "load_state", "delete_state"}
      => \A u \in StorageUserIds \ {OperationUser'} :
            /\ load_state(u, files', FALSE).result = load_state(u, files, FALSE).result
            /\ state_exists(u, files') = state_exists(u, files) ]_vars

\* ------------------------------------------------------------------------
\* workflow_orchestrator_with_memory.py: two orchestrators of one process
\* created for the same user. The first holds the state variables and
\* conversation_history, the second holds second_orchestrator.
\* ------------------------------------------------------------------------
\* Turns of chat() each orchestrator takes
MaxOrchestratorTurns == 1

\* WorkflowOrchestratorWithMemory.__init__ with enable_memory: self.state is
\* what storage_manager.load(user_id, create_if_missing=True) returns, and the
\* transcript is empty
new_orchestrator(uid, fs) ==
  Only({ [orchestrator |-> [created |-> TRUE,
                            state |-> loaded.result.state,
                            conversation_history |-> <<>>],
          files |-> loaded.files] :
         loaded \in {load_state(uid, fs, TRUE)} })

\* WorkflowOrchestratorWithMemory.new_session(consolidate_memories=True): the
\* state, the transcript and the directory of snapshots it leaves
new_session(st, fs) ==
  Only({ [state |-> consolidated.state,
          conversation_history |-> <<>>,
          files |-> save_state(consolidated.state, fs).files] :
         consolidated \in {consolidate_session_memories(st)} })

\* The orchestrators created so far
Orchestrators == IF second_orchestrator.created THEN {1, 2} ELSE {1}

\* self.state and self.conversation_history of orchestrator o
OrchestratorOf(o) ==
  IF o = 1
  THEN [created |-> TRUE, state |-> State, conversation_history |-> conversation_history]
  ELSE second_orchestrator

\* Orchestrator o is left with state st and transcript history
SetOrchestrator(o, st, history) ==
  IF o = 1
  THEN /\ SetState(st)
       /\ conversation_history' = history
       /\ UNCHANGED second_orchestrator
  ELSE /\ second_orchestrator' =
            [created |-> TRUE, state |-> st, conversation_history |-> history]
       /\ UNCHANGED <<state_vars, conversation_history>>

\* Notes held in a state
NoteCountOf(st) == Len(st.session_memory.notes) + Len(st.global_memory.notes)

CreateSecondOrchestrator ==
  /\ ~second_orchestrator.created
  /\ \E r \in {new_orchestrator(user_id, files)} :
       /\ second_orchestrator' = r.orchestrator
       /\ files' = r.files
       /\ op' = "__init__"
       /\ arg' = [user_id |-> user_id]
       /\ ret' = r.orchestrator.state
  /\ UNCHANGED <<state_vars, clock, conversation_history, max_turns, appended,
                 trimmedSinceReinject>>

\* memory_tools.save_memory_note of orchestrator o
OrchestratorSaveMemoryNote ==
  /\ \E o \in Orchestrators :
       /\ NoteCountOf(OrchestratorOf(o).state) < MaxStorageNotes
       /\ \E st \in {add_memory_note(OrchestratorOf(o).state,
                                     "User likes bar charts", <<"bar">>, TRUE)} :
            /\ SetOrchestrator(o, st, OrchestratorOf(o).conversation_history)
            /\ op' = "save_memory_note"
            /\ arg' = [orchestrator |-> o, text |-> "User likes bar charts",
                       keywords |-> <<"bar">>]
            /\ ret' = TRUE
  /\ UNCHANGED <<clock, max_turns, files, appended, trimmedSinceReinject>>

\* memory_tools.update_profile of orchestrator o
OrchestratorUpdateProfile ==
  /\ \E o \in Orchestrators :
       \E r \in {update_profile(OrchestratorOf(o).state, "audience", "executives")} :
          /\ SetOrchestrator(o, r.state, OrchestratorOf(o).conversation_history)
          /\ op' = "update_profile"
          /\ arg' = [orchestrator |-> o, field |-> "audience", value |-> "executives"]
          /\ ret' = r.ok
  /\ UNCHANGED <<clock, max_turns, files, appended, trimmedSinceReinject>>

\* chat() of orchestrator o, answered by the communication agent
OrchestratorChat ==
  /\ \E o \in Orchestrators :
       /\ UserCount(OrchestratorOf(o).conversation_history) < MaxOrchestratorTurns
       /\ \E r \in {chat(OrchestratorOf(o).state, OrchestratorOf(o).conversation_history,
                         files, "hello", Agent(FALSE, "conversation", "Done.", ""))} :
            /\ SetOrchestrator(o, r.state, r.conversation_history)
            /\ files' = r.files
            /\ op' = "chat"
            /\ arg' = [orchestrator |-> o]
            /\ ret' = r.response
  /\ UNCHANGED <<clock, max_turns, appended, trimmedSinceReinject>>

\* new_session() of orchestrator o
OrchestratorNewSession ==
  /\ \E o \in Orchestrators :
       \E r \in {new_session(OrchestratorOf(o).state, files)} :
          /\ SetOrchestrator(o, r.state, r.conversation_history)
          /\ files' = r.files
          /\ op' = "new_session"
          /\ arg' = [orchestrator |-> o]
          /\ ret' = <<>>
  /\ UNCHANGED <<clock, max_turns, appended, trimmedSinceReinject>>

NextOrchestrators ==
  \/ CreateSecondOrchestrator
  \/ OrchestratorSaveMemoryNote
  \/ OrchestratorUpdateProfile
  \/ OrchestratorChat
  \/ OrchestratorNewSession

SpecOrchestrators == InitChat /\ [][NextOrchestrators]_vars

\* The texts of the notes a state holds, session and global
TextsHeld(st) ==
  { st.session_memory.notes[i].text : i \in 1..Len(st.session_memory.notes) }
  \cup { st.global_memory.notes[i].text : i \in 1..Len(st.global_memory.notes) }

\* C30: two orchestrators created for the same user_id operate on one state:
\* after a chat() or new_session() of either has saved, the persisted snapshot
\* holds every note and the profile that each of the two orchestrators holds,
\* so no completed update is missing from it.
C30_NoCompletedUpdateMissing ==
  (op \in {"chat", "new_session"} /\ second_orchestrator.created)
  => \A o \in {1, 2} :
        /\ TextsHeld(OrchestratorOf(o).state)
             \subseteq TextsHeld(load_state(user_id, files, FALSE).result.state)
        /\ OrchestratorOf(o).state.profile
             = load_state(user_id, files, FALSE).result.state.profile

====
